---- MODULE Spec2Model ----
(***************************************************************************)
(* A model of smart-shell's agentic command protocol: the dispatcher       *)
(* SmartShellAgent.execute_command with its action handlers and            *)
(* confirmation prompts, and the orchestration loop SmartShellAgent.run.   *)
(*                                                                         *)
(* Python values are modelled as follows.  A dict is a function whose      *)
(* domain is a set of strings, so d.get(k) can tell a missing key from a   *)
(* present one.  Text is a TLA+ string drawn from a small universe; the    *)
(* string operations the code uses on it (lower, strip, the test for a     *)
(* wildcard character, glob matching) are tabulated over that universe.    *)
(* A formatted message f"...{x}..." is the tuple <<template, x>>.  A path  *)
(* is the sequence of its components below the root of a small file tree.  *)
(* An exception leaving a function is the value [exception |-> name].      *)
(***************************************************************************)
EXTENDS Integers, Sequences, FiniteSets, TLC

\* ------------------------------------------------------------------ bounds
\* Confirmation prompts the user answers during one dispatch.
MaxAnswers == 2
\* Entries the operation log may hold: the commands the loop dispatches in a run.
MaxLog == 2
\* Sub-commands of the batches handed to execute_command.
MaxBatch == 2
\* Pieces (prose lines, fenced blocks, bare lines) of a text given to the extractor.
MaxPieces == 3

\* the model is called at most this many times with a reply that is read through
MaxCalls == 1

\* Calls of execute_command a caller makes on one agent.
MaxSession == 3

\* Exchanges the conversation history holds when the model is called.
MaxExchanges == 6

\* Lines of a streamed response of the provider.
MaxLines == 4

\* ------------------------------------------------------- python primitives
None == "<None>"

\* d.get(k)
Get(d, k) == IF k \in DOMAIN d THEN d[k] ELSE None

\* d.get(k, default)
GetDefault(d, k, default) == IF k \in DOMAIN d THEN d[k] ELSE default

\* bool(v) for a text value or None
Truthy(v) == v # None /\ v # ""

\* a or b
Or(a, b) == IF Truthy(a) THEN a ELSE b

\* str.lower() over the universe of answers and git subcommands
Lower(s) ==
    CASE s = "Y" -> "y"
      [] s = "N" -> "n"
      [] s = "PUSH" -> "push"
      [] OTHER -> s

\* str.strip() over the universe of command texts
Strip(s) ==
    CASE s = " " -> ""
      [] s = "  " -> ""
      [] s = " push" -> "push"
      [] s = " a" -> "a"
      [] s = "a " -> "a"
      [] s = " help" -> "help"
      [] OTHER -> s

\* '*' in s or '?' in s
HasWildcard(s) == s \in {"*.tmp", "*.log", "?.tmp"}

\* fnmatch of one path component against a pattern
FnMatch(name, pattern) ==
    CASE pattern = "*.tmp" -> name \in {"a.tmp", "b.tmp"}
      [] pattern = "?.tmp" -> name \in {"a.tmp", "b.tmp"}
      [] pattern = "*.log" -> FALSE
      [] OTHER -> name = pattern

\* Path.suffix
Suffix(name) ==
    CASE name \in {"a.tmp", "b.tmp"} -> ".tmp"
      [] name = "s.py" -> ".py"
      [] name = "p.png" -> ".png"
      [] OTHER -> ""

\* ------------------------------------------------------------- file system
\* Names of directory entries, in the order glob and iterdir report them.
NameOrder == <<"a.tmp", "b.tmp", "d", "n", "s.py">>
Names == {NameOrder[i] : i \in 1..Len(NameOrder)}

Root == <<>>

\* (variant) the parent is not taken
ParentSame(p) == p

\* Path.parent (the parent of the root is the root)
Parent(p) == IF p = <<>> THEN <<>> ELSE SubSeq(p, 1, Len(p) - 1)

\* work_directory / s, normalised as the operating system resolves it
Join(wd, s) ==
    CASE s = "" \/ s = "." -> wd
      [] s = ".." -> Parent(wd)
      [] s = "/" -> Root
      [] OTHER -> Append(wd, s)

IsPrefix(p, q) == Len(p) <= Len(q) /\ SubSeq(q, 1, Len(p)) = p

\* Path.exists(), Path.is_dir()
Exists(st, p) == p \in st.dirs \/ p \in st.files
IsDir(st, p) == p \in st.dirs

\* ------------------------------------------------- state of one dispatch
\* st carries what a call of execute_command reads and changes: the agent's
\* work directory, the file tree, the environment's answers (the lines typed
\* at prompts, whether a subprocess exits 0, whether the directory is a Git
\* repository, the entries on which the operating system refuses a change),
\* and the trace of calls, prompts and effects.
Event(st, kind, arg) ==
    [kind |-> kind, handler |-> st.handler, call |-> st.call, depth |-> st.depth, arg |-> arg]

Log(st, kind, arg) == [st EXCEPT !.trace = Append(@, Event(st, kind, arg))]

Ret(r, st) == [result |-> r, st |-> st]

Raised(r) == "exception" \in DOMAIN r

\* input(prompt): the next line the user types at the terminal
Input(st) ==
    [answer |-> Head(st.answers),
     st |-> [Log(st, "prompt", <<Head(st.answers)>>) EXCEPT !.answers = Tail(@)]]

\* shutil.rmtree(p)
RmTree(st, p) ==
    [st EXCEPT !.dirs = {q \in @ : ~IsPrefix(p, q)},
               !.files = {q \in @ : ~IsPrefix(p, q)}]

\* Path.unlink()
Unlink(st, p) == [st EXCEPT !.files = @ \ {p}]

\* glob.glob(pattern) for a pattern in the work directory
Glob(st, pattern) ==
    SelectSeq([i \in 1..Len(NameOrder) |-> Append(st.work_directory, NameOrder[i])],
              LAMBDA p : Exists(st, p) /\ FnMatch(p[Len(p)], pattern))

\* Ctrl-C typed at a prompt: input() raises KeyboardInterrupt, which no
\* "except Exception" of a handler catches
Interrupted(answer) == answer = "^C"

KeyboardInterrupt == [exception |-> "KeyboardInterrupt"]

\* -------------------------------------------------------- gated handlers
\* a confirmation check that takes only "n" for a refusal
DeclinedOnlyN(answer) == Lower(answer) = "n"

\* confirmation.lower() != 'y'
Declined(answer) == Lower(answer) # "y"

RECURSIVE DeleteMatchedStops(_, _, _, _)
\* (variant) the loop over matched_files ends at the first file that fails
DeleteMatchedStops(matched, i, results, st) ==
    IF i > Len(matched)
    THEN [results |-> results, st |-> st]
    ELSE LET p == matched[i]
             name == p[Len(p)]
         IN  IF ~Exists(st, p)
             THEN [results |-> Append(results, [file |-> p, success |-> FALSE,
                                                error |-> <<"not_exist">>]), st |-> st]
             ELSE IF name \in st.refused
             THEN [results |-> Append(results, [file |-> p, success |-> FALSE,
                                                error |-> <<"delete_failed", "OSError">>]),
                   st |-> st]
             ELSE IF IsDir(st, p)
             THEN DeleteMatchedStops(matched, i + 1,
                      Append(results, [file |-> p, success |-> TRUE, type |-> "directory",
                                       message |-> <<"deleted_directory", name>>]),
                      Log(RmTree(st, p), "effect", <<"rmtree", name>>))
             ELSE DeleteMatchedStops(matched, i + 1,
                      Append(results, [file |-> p, success |-> TRUE, type |-> "file",
                                       message |-> <<"deleted_file", name>>]),
                      Log(Unlink(st, p), "effect", <<"unlink", name>>))

RECURSIVE DeleteMatched(_, _, _, _)
\* the loop of action_delete_file over matched_files; each file's failure is
\* recorded in its own entry and the loop goes on
DeleteMatched(matched, i, results, st) ==
    IF i > Len(matched)
    THEN [results |-> results, st |-> st]
    ELSE LET p == matched[i]
             name == p[Len(p)]
         IN  IF ~Exists(st, p)
             THEN DeleteMatched(matched, i + 1,
                      Append(results, [file |-> p, success |-> FALSE, error |-> <<"not_exist">>]), st)
             ELSE IF name \in st.refused
             THEN DeleteMatched(matched, i + 1,
                      Append(results, [file |-> p, success |-> FALSE,
                                       error |-> <<"delete_failed", "OSError">>]), st)
             ELSE IF IsDir(st, p)
             THEN DeleteMatched(matched, i + 1,
                      Append(results, [file |-> p, success |-> TRUE, type |-> "directory",
                                       message |-> <<"deleted_directory", name>>]),
                      Log(RmTree(st, p), "effect", <<"rmtree", name>>))
             ELSE DeleteMatched(matched, i + 1,
                      Append(results, [file |-> p, success |-> TRUE, type |-> "file",
                                       message |-> <<"deleted_file", name>>]),
                      Log(Unlink(st, p), "effect", <<"unlink", name>>))

\* all(r.get("success", False) for r in results)
AllSuccess(results) == \A i \in 1..Len(results) : results[i].success

\* the wildcard branch of action_delete_file, after the matched set is known
DeleteWildcard(file_name, confirmed, matched, st) ==
    LET inp == Input(st)
        go(s) == LET d == DeleteMatched(matched, 1, <<>>, s)
                 IN  Ret([success |-> AllSuccess(d.results), deleted |-> d.results,
                          count |-> Len(d.results)], d.st)
    IN  IF confirmed THEN go(st)
        ELSE IF Interrupted(inp.answer) THEN Ret(KeyboardInterrupt, inp.st)
        ELSE IF Declined(inp.answer)
        THEN Ret([success |-> FALSE, warning |-> <<"user_refused_batch_delete", file_name>>,
                  confirmation_needed |-> FALSE], inp.st)
        ELSE go(inp.st)

\* the single-target branch of action_delete_file, after the prompt
DeleteSingle(file_name, st) ==
    LET file_path == Join(st.work_directory, file_name)
    IN  IF ~Exists(st, file_path)
        THEN Ret([success |-> FALSE, error |-> <<"file_not_exist", file_name>>], st)
        ELSE IF file_name \in st.refused
        THEN Ret([success |-> FALSE, error |-> <<"delete_failed", "OSError">>], st)
        ELSE IF IsDir(st, file_path)
        THEN Ret([success |-> TRUE, file_name |-> file_name, type |-> "directory",
                  message |-> <<"deleted_directory", file_name>>],
                 Log(RmTree(st, file_path), "effect", <<"rmtree", file_name>>))
        ELSE Ret([success |-> TRUE, file_name |-> file_name, type |-> "file",
                  message |-> <<"deleted_file", file_name>>],
                 Log(Unlink(st, file_path), "effect", <<"unlink", file_name>>))

\* (variant) an empty matched set is not looked for
NothingMatchedNever(matched_files) == FALSE

\* if not matched_files
NothingMatched(matched_files) == matched_files = <<>>

action_delete_file(file_name, confirmed, st) ==
    IF HasWildcard(file_name)
    THEN LET matched_files == Glob(st, file_name)
         IN  IF NothingMatched(matched_files)
             THEN Ret([success |-> FALSE, error |-> <<"no_matching_files", file_name>>], st)
             ELSE DeleteWildcard(file_name, confirmed, matched_files, st)
    ELSE LET inp == Input(st)
         IN  IF confirmed THEN DeleteSingle(file_name, st)
             ELSE IF Interrupted(inp.answer) THEN Ret(KeyboardInterrupt, inp.st)
             ELSE IF Declined(inp.answer)
             THEN Ret([success |-> FALSE, warning |-> <<"user_refused_delete", file_name>>,
                       confirmation_needed |-> FALSE], inp.st)
             ELSE DeleteSingle(file_name, inp.st)

action_shell_command(command, st) ==
    LET inp == Input(st)
    IN  IF Strip(command) = ""
        THEN Ret([success |-> FALSE, error |-> <<"command_empty">>], st)
        ELSE IF Interrupted(inp.answer) THEN Ret(KeyboardInterrupt, inp.st)
        ELSE IF Declined(inp.answer)
        THEN Ret([success |-> FALSE, error |-> <<"user_cancelled">>], inp.st)
        ELSE LET ran == Log(inp.st, "effect", <<"popen", command>>)
             IN  IF st.rc
                 THEN Ret([success |-> TRUE, message |-> <<"command_succeeded">>], ran)
                 ELSE Ret([success |-> FALSE, error |-> <<"command_failed_exit_code">>], ran)

action_create_script(filename, content, st) ==
    LET inp == Input(st)
        script_path == Join(inp.st.work_directory, filename)
    IN  IF Interrupted(inp.answer) THEN Ret(KeyboardInterrupt, inp.st)
        ELSE IF Declined(inp.answer)
        THEN Ret([success |-> FALSE, error |-> <<"user_cancelled">>], inp.st)
        ELSE IF ~Truthy(filename) \/ ~Truthy(content)
        THEN Ret([success |-> FALSE, error |-> <<"missing_filename_or_content">>], inp.st)
        ELSE IF Exists(inp.st, script_path)
        THEN Ret([success |-> FALSE, error |-> <<"file_exists", filename>>], inp.st)
        ELSE IF filename \in st.refused
        THEN Ret([success |-> FALSE, error |-> <<"create_script_failed", "OSError">>], inp.st)
        ELSE Ret([success |-> TRUE, filename |-> filename, full_path |-> script_path,
                  message |-> <<"created_script", filename>>],
                 Log([inp.st EXCEPT !.files = @ \cup {script_path}], "effect",
                     <<"write", filename>>))

write_commands ==
    {"add", "commit", "push", "pull", "merge", "rebase", "reset", "checkout", "branch",
     "tag", "remote", "fetch", "clone", "init", "stash", "cherry-pick", "revert", "clean",
     "rm", "mv"}

\* the part of action_git after the confirmation: repository check and run
GitRun(full_command, st) ==
    IF ~st.repo
    THEN Ret([success |-> FALSE, error |-> <<"not_a_git_repository">>], st)
    ELSE LET ran == Log(st, "effect", <<"popen">> \o full_command)
         IN  IF st.rc
             THEN Ret([success |-> TRUE, command |-> full_command, output |-> <<"stdout">>,
                       message |-> <<"git_succeeded">>], ran)
             ELSE Ret([success |-> FALSE, command |-> full_command,
                       error |-> <<"git_failed_exit_code">>, output |-> <<"stdout">>], ran)

action_git(command, args, st) ==
    LET full_command == IF Truthy(args) THEN <<"git", command, args>> ELSE <<"git", command>>
        is_write_operation == Lower(command) \in write_commands
        inp == Input(st)
    IN  IF is_write_operation
        THEN IF Interrupted(inp.answer) THEN Ret(KeyboardInterrupt, inp.st)
             ELSE IF Declined(inp.answer)
             THEN Ret([success |-> FALSE, command |-> full_command,
                       error |-> <<"user_cancelled_git_write">>,
                       message |-> <<"git_cancelled">>], inp.st)
             ELSE GitRun(full_command, inp.st)
        ELSE GitRun(full_command, st)

\* ------------------------------------------------------ ungated handlers
\* the entries of a directory as action_list_directory sorts them: by type
\* ("directory" before "file"), then by name
ListItems(st, target_path) ==
    LET entry(i) == Append(target_path, NameOrder[i])
        all == [i \in 1..Len(NameOrder) |-> entry(i)]
        item(p) == [name |-> p[Len(p)], type |-> IF IsDir(st, p) THEN "directory" ELSE "file"]
        ds == SelectSeq(all, LAMBDA p : p \in st.dirs)
        fs == SelectSeq(all, LAMBDA p : p \in st.files)
    IN  [i \in 1..Len(ds) |-> item(ds[i])] \o [i \in 1..Len(fs) |-> item(fs[i])]

action_list_directory(path, file_filter, st) ==
    LET target_path == IF Truthy(path) THEN Join(st.cwd, path) ELSE st.work_directory
        items == ListItems(st, target_path)
    IN  IF ~Exists(st, target_path)
        THEN Ret([success |-> FALSE, error |-> <<"list_directory_not_exist", target_path>>], st)
        ELSE IF ~IsDir(st, target_path)
        THEN Ret([success |-> FALSE, error |-> <<"list_not_a_directory", target_path>>], st)
        ELSE Ret([success |-> TRUE, path |-> target_path, items |-> items,
                  total_files |-> Len(SelectSeq(items, LAMBDA x : x.type = "file")),
                  total_dirs |-> Len(SelectSeq(items, LAMBDA x : x.type = "directory")),
                  filter |-> file_filter, filter_info |-> <<"">>], st)

\* (variant) the work directory is set before the path is checked
action_change_directory_eager(path, st) ==
    LET new_path == Join(st.work_directory, path)
        moved == [st EXCEPT !.work_directory = new_path]
    IN  IF ~Exists(st, new_path) \/ ~IsDir(st, new_path)
        THEN Ret([success |-> FALSE, error |-> <<"directory_not_exist", path>>], moved)
        ELSE Ret([success |-> TRUE, old_directory |-> st.work_directory,
                  new_directory |-> new_path, message |-> <<"changed_directory", new_path>>],
                 moved)

action_change_directory(path, st) ==
    LET new_path == Join(st.work_directory, path)
    IN  IF ~Exists(st, new_path)
        THEN Ret([success |-> FALSE, error |-> <<"directory_not_exist", path>>], st)
        ELSE IF ~IsDir(st, new_path)
        THEN Ret([success |-> FALSE, error |-> <<"not_a_directory", path>>], st)
        ELSE Ret([success |-> TRUE, old_directory |-> st.work_directory,
                  new_directory |-> new_path, message |-> <<"changed_directory", new_path>>],
                 Log([st EXCEPT !.work_directory = new_path], "effect", <<"chdir", path>>))

\* Path.rename / shutil.move of one entry: the entry and all below it
MovePath(st, from, to) ==
    LET rebase(q) == IF IsPrefix(from, q) THEN to \o SubSeq(q, Len(from) + 1, Len(q)) ELSE q
    IN  [st EXCEPT !.dirs = {rebase(q) : q \in @}, !.files = {rebase(q) : q \in @}]

action_rename_file(old_name, new_name, st) ==
    LET old_path == Join(st.work_directory, old_name)
        new_path == Join(st.work_directory, new_name)
    IN  IF ~Exists(st, old_path)
        THEN Ret([success |-> FALSE, error |-> <<"file_not_exist", old_name>>], st)
        ELSE IF Exists(st, new_path)
        THEN Ret([success |-> FALSE, error |-> <<"target_exists", new_name>>], st)
        ELSE IF old_name \in st.refused
        THEN Ret([success |-> FALSE, error |-> <<"rename_failed", "OSError">>], st)
        ELSE Ret([success |-> TRUE, old_name |-> old_name, new_name |-> new_name,
                  message |-> <<"renamed", old_name, new_name>>],
                 Log(MovePath(st, old_path, new_path), "effect", <<"rename", old_name>>))

\* shutil.move(src, dst): into dst when dst is a directory, else onto dst;
\* [ok |-> FALSE] when the operating system refuses
ShutilMove(st, src, dst) ==
    LET name == src[Len(src)]
        real_dst == IF IsDir(st, dst) THEN Append(dst, name) ELSE dst
    IN  IF name \in st.refused
           \/ (IsDir(st, dst) /\ Exists(st, real_dst))
           \/ (IsDir(st, src) /\ (dst \in st.files \/ IsPrefix(src, dst)))
        THEN [ok |-> FALSE, st |-> st]
        ELSE [ok |-> TRUE, st |-> Log(MovePath(st, src, real_dst), "effect", <<"move", name>>)]

RECURSIVE MoveMatched(_, _, _, _, _)
\* the loop of action_move_file over matched_files; the first failure leaves
\* the loop through the handler's except clause
MoveMatched(matched, i, dest_path, moved, st) ==
    IF i > Len(matched)
    THEN Ret([success |-> TRUE, destination |-> dest_path, moved_files |-> moved,
              message |-> <<"moved_batch", Len(moved)>>], st)
    ELSE LET p == matched[i]
             name == p[Len(p)]
             mv == ShutilMove(st, p, Append(dest_path, name))
         IN  IF ~mv.ok
             THEN Ret([success |-> FALSE, error |-> <<"move_failed", "OSError">>], st)
             ELSE MoveMatched(matched, i + 1, dest_path, Append(moved, name), mv.st)

action_move_file(source, destination, st) ==
    LET dest_path == Join(st.work_directory, destination)
        source_path == Join(st.work_directory, source)
        matched_files == SelectSeq(Glob(st, source), LAMBDA p : p \in st.files)
        mv == ShutilMove(st, source_path, dest_path)
    IN  IF HasWildcard(source)
        THEN IF matched_files = <<>>
             THEN Ret([success |-> FALSE, error |-> <<"no_matching_files", source>>], st)
             ELSE IF dest_path \in st.files
             THEN Ret([success |-> FALSE, error |-> <<"move_failed", "FileExistsError">>], st)
             ELSE MoveMatched(matched_files, 1, dest_path, <<>>,
                      [st EXCEPT !.dirs = @ \cup {dest_path}])
        ELSE IF ~Exists(st, source_path)
        THEN Ret([success |-> FALSE, error |-> <<"source_not_exist", source>>], st)
        ELSE IF ~mv.ok
        THEN Ret([success |-> FALSE, error |-> <<"move_failed", "OSError">>], st)
        ELSE Ret([success |-> TRUE, source |-> source, destination |-> dest_path,
                  message |-> <<"moved", source, dest_path>>], mv.st)

action_create_directory(dir_name, st) ==
    LET dir_path == Join(st.work_directory, dir_name)
    IN  IF Exists(st, dir_path)
        THEN Ret([success |-> FALSE, error |-> <<"directory_exists", dir_name>>], st)
        ELSE IF dir_name \in st.refused
        THEN Ret([success |-> FALSE, error |-> <<"mkdir_failed", "OSError">>], st)
        ELSE Ret([success |-> TRUE, dir_name |-> dir_name, full_path |-> dir_path,
                  message |-> <<"created_directory", dir_name>>],
                 Log([st EXCEPT !.dirs = @ \cup {dir_path}], "effect", <<"mkdir", dir_name>>))

action_get_file_info(file_name, st) ==
    LET file_path == Join(st.work_directory, file_name)
    IN  IF ~Exists(st, file_path)
        THEN Ret([success |-> FALSE, error |-> <<"file_not_exist", file_name>>], st)
        ELSE Ret([success |-> TRUE, name |-> file_name,
                  type |-> IF IsDir(st, file_path) THEN "directory" ELSE "file",
                  full_path |-> file_path], st)

action_ffmpeg(source, target, options, st) ==
    LET source_path == Join(st.work_directory, source)
        ran == Log(st, "effect", <<"run", "ffmpeg", source, target>>)
    IN  IF ~Truthy(source) \/ ~Truthy(target)
        THEN Ret([success |-> FALSE, error |-> <<"missing_source_or_target">>], st)
        ELSE IF ~Exists(st, source_path)
        THEN Ret([success |-> FALSE, error |-> <<"source_not_exist", source>>], st)
        ELSE IF st.rc
        THEN Ret([success |-> TRUE, message |-> <<"media_processed">>], ran)
        ELSE Ret([success |-> FALSE, error |-> <<"ffmpeg_failed">>], ran)

\* abs_path of action_read_file, action_summarize_file and action_analyze_image
AbsPath(file_path, st) == Join(st.work_directory, file_path)

action_summarize_file(file_path, st) ==
    LET abs_path == AbsPath(file_path, st)
    IN  IF ~Exists(st, abs_path)
        THEN Ret([success |-> FALSE, error |-> <<"file_not_exist", file_path>>], st)
        ELSE IF abs_path \notin st.files
        THEN Ret([success |-> FALSE, error |-> <<"not_a_file", file_path>>], st)
        ELSE Ret([success |-> TRUE, summary |-> <<"ai_text">>, file |-> abs_path],
                 Log(st, "effect", <<"call_ai", file_path>>))

action_read_file(file_path, max_lines, st) ==
    LET abs_path == AbsPath(file_path, st)
    IN  IF ~Exists(st, abs_path)
        THEN Ret([success |-> FALSE, error |-> <<"file_not_exist", file_path>>], st)
        ELSE IF abs_path \notin st.files
        THEN Ret([success |-> FALSE, error |-> <<"not_a_file", file_path>>], st)
        ELSE Ret([success |-> TRUE, file |-> abs_path, content |-> <<"content", file_path>>], st)

image_exts == {".jpg", ".jpeg", ".png", ".gif", ".bmp", ".webp", ".tiff", ".tif"}

action_analyze_image(file_path, prompt, st) ==
    LET abs_path == AbsPath(file_path, st)
    IN  IF ~Exists(st, abs_path)
        THEN Ret([success |-> FALSE, error |-> <<"image_not_exist", file_path>>], st)
        ELSE IF abs_path \notin st.files
        THEN Ret([success |-> FALSE, error |-> <<"not_a_file", file_path>>], st)
        ELSE IF Suffix(file_path) \notin image_exts
        THEN Ret([success |-> FALSE, error |-> <<"unsupported_format", Suffix(file_path)>>], st)
        ELSE Ret([success |-> TRUE, analysis |-> <<"ai_text">>, file |-> abs_path],
                 Log(st, "effect", <<"call_ai_multimodal", file_path>>))

action_diff(file1, file2, options, st) ==
    LET file1_path == Join(st.cwd, file1)
        file2_path == Join(st.cwd, file2)
        ran == Log(st, "effect", <<"popen", "diff", file1, file2>>)
    IN  IF ~Exists(st, file1_path)
        THEN Ret([success |-> FALSE, error |-> <<"file_not_exist", file1>>], st)
        ELSE IF ~Exists(st, file2_path)
        THEN Ret([success |-> FALSE, error |-> <<"file_not_exist", file2>>], st)
        ELSE IF st.rc
        THEN Ret([success |-> TRUE, command |-> <<"diff", file1, file2>>, command_type |-> "diff",
                  output |-> <<"stdout">>, message |-> <<"compared">>], ran)
        ELSE Ret([success |-> FALSE, command |-> <<"diff", file1, file2>>, command_type |-> "diff",
                  error |-> <<"diff_failed_exit_code">>, output |-> <<"stdout">>], ran)

\* ---------------------------------------------------------- dispatcher
\* entry of one execute_command call: a fresh call number, the action as
\* the current handler
Enter(st, action) ==
    Log([st EXCEPT !.call = st.calls + 1, !.calls = @ + 1, !.handler = action],
        "execute", <<action>>)

\* the call of an action handler from execute_command
Invoke(st) == Log(st, "invoke", <<st.handler>>)

\* what execute_command prints of a handler's result before returning it:
\* result[k] for each k of ok_keys on success and of fail_keys otherwise; a
\* missing key raises KeyError, an exception of the handler passes through
Printed(out, ok_keys, fail_keys) ==
    IF Raised(out.result) THEN out
    ELSE IF (IF out.result.success THEN ok_keys ELSE fail_keys) \subseteq DOMAIN out.result
    THEN out
    ELSE Ret([exception |-> "KeyError"], out.st)

\* the keys the delete branch reads: message on success, warning when the
\* result asks for a confirmation
DeletePrinted(out) ==
    IF Raised(out.result) THEN out
    ELSE IF out.result.success
    THEN Printed(out, {"message"}, {})
    ELSE IF GetDefault(out.result, "confirmation_needed", FALSE)
    THEN Printed(out, {}, {"warning"})
    ELSE out

\* the end of one execute_command call: it returns a result or lets an
\* exception pass to its caller
Leave(st, out) ==
    Ret(out.result,
        Log([out.st EXCEPT !.call = st.call, !.handler = st.handler, !.depth = st.depth],
            IF Raised(out.result) THEN "raise" ELSE "return", <<out.result>>))

\* (variant) an unknown action taken for done
unknown_action_ok == [success |-> TRUE, message |-> <<"unknown_action_type">>]

unknown_action == [success |-> FALSE, error |-> <<"unknown_action_type">>]

\* if not self.knowledge_manager
knowledge_unavailable == [success |-> FALSE, error |-> <<"knowledge_unavailable">>]

RECURSIVE execute_command(_, _)
RECURSIVE ExecuteBatch(_, _, _, _, _)

\* the batch branch: every sub-command in order, no short-circuit on failure
ExecuteBatch(commands, i, results, all_success, st) ==
    IF i > Len(commands)
    THEN Ret([success |-> all_success, results |-> results], st)
    ELSE LET subcmd == commands[i]
             sub == execute_command(subcmd, [st EXCEPT !.depth = @ + 1])
             back == [sub.st EXCEPT !.depth = st.depth]
         IN  IF Raised(sub.result)
             THEN Ret(sub.result, back)
             ELSE ExecuteBatch(commands, i + 1,
                      Append(results, [action |-> Get(subcmd, "action"), result |-> sub.result]),
                      all_success /\ GetDefault(sub.result, "success", TRUE), back)

execute_command(command, st0) ==
    LET action == Get(command, "action")
        params == GetDefault(command, "params", <<>>)
        st == Enter(st0, action)
        h == Invoke(st)
        file_name == Or(Get(params, "file_name"), Or(Get(params, "path"), Get(params, "name")))
        out ==
            CASE action = "cls" ->
               Ret([success |-> TRUE, message |-> <<"screen_cleared">>],
                   Log(st, "effect", <<"clear_screen">>))
          [] action = "batch" ->
               ExecuteBatch(GetDefault(params, "commands", <<>>), 1, <<>>, TRUE, st)
          [] action = "list" ->
               Printed(action_list_directory(Get(params, "path"), Get(params, "filter"), h),
                       {"path", "items", "total_dirs", "total_files"}, {"error"})
          [] action = "cd" ->
               Printed(action_change_directory(GetDefault(params, "path", ""), h), {}, {"error"})
          [] action = "rename" ->
               IF Truthy(Get(params, "old_name")) /\ Truthy(Get(params, "new_name"))
               THEN Printed(action_rename_file(params.old_name, params.new_name, h),
                            {"message"}, {"error"})
               ELSE Ret(unknown_action, st)
          [] action = "move" ->
               IF Truthy(Get(params, "source")) /\ Truthy(Get(params, "destination"))
               THEN Printed(action_move_file(params.source, params.destination, h),
                            {"message"}, {"error"})
               ELSE Ret(unknown_action, st)
          [] action = "delete" ->
               IF Truthy(file_name)
               THEN DeletePrinted(action_delete_file(file_name, FALSE, h))
               ELSE Ret([success |-> FALSE, error |-> <<"missing_file_name">>], st)
          [] action = "mkdir" ->
               IF Truthy(Get(params, "path"))
               THEN Printed(action_create_directory(params.path, h), {"message"}, {"error"})
               ELSE Ret(unknown_action, st)
          [] action = "info" ->
               IF Truthy(file_name)
               THEN Printed(action_get_file_info(file_name, h),
                            {"name", "type", "full_path"}, {"error"})
               ELSE Ret([success |-> FALSE, error |-> <<"missing_file_name">>], st)
          [] action = "ffmpeg" ->
               IF Truthy(Get(params, "source")) /\ Truthy(Get(params, "target"))
               THEN Printed(action_ffmpeg(params.source, params.target, Get(params, "options"), h),
                            {"message"}, {"error"})
               ELSE Ret([success |-> FALSE, error |-> <<"missing_source_or_target">>], st)
          [] action = "summarize" ->
               IF Truthy(Get(params, "path"))
               THEN Printed(action_summarize_file(params.path, h), {"file", "summary"}, {"error"})
               ELSE Ret([success |-> FALSE, error |-> <<"missing_path">>], st)
          [] action = "shell" ->
               IF Truthy(Get(params, "command"))
               THEN Printed(action_shell_command(params.command, h), {"message"}, {})
               ELSE Ret([success |-> FALSE, error |-> <<"missing_command">>], st)
          [] action = "script" ->
               IF Truthy(Get(params, "filename")) /\ Truthy(Get(params, "content"))
               THEN Printed(action_create_script(params.filename, params.content, h),
                            {"message"}, {"error"})
               ELSE Ret([success |-> FALSE, error |-> <<"missing_filename_or_content">>], st)
          [] action = "read" ->
               IF Truthy(Get(params, "path"))
               THEN Printed(action_read_file(params.path, GetDefault(params, "max_lines", 100), h),
                            {"file"}, {"error"})
               ELSE Ret([success |-> FALSE, error |-> <<"missing_path">>], st)
          [] action = "analyze_image" ->
               IF Truthy(Get(params, "path"))
               THEN Printed(action_analyze_image(params.path, GetDefault(params, "prompt", ""), h),
                            {"file", "analysis"}, {"error"})
               ELSE Ret([success |-> FALSE, error |-> <<"missing_path">>], st)
          [] action = "git" ->
               IF Truthy(Get(params, "command"))
               THEN LET out == action_git(params.command, Get(params, "args"), h)
                    IN  IF ~Raised(out.result) /\ ~out.result.success
                           /\ out.result.error = <<"user_cancelled_git_write">>
                        THEN Printed(out, {}, {"message"})
                        ELSE Printed(out, {"command"}, {"error"})
               ELSE Ret([success |-> FALSE, error |-> <<"missing_command">>], st)
          [] action = "diff" ->
               IF Truthy(Get(params, "file1")) /\ Truthy(Get(params, "file2"))
               THEN Printed(action_diff(params.file1, params.file2, Get(params, "options"), h),
                            {"command", "message"}, {"error"})
               ELSE Ret([success |-> FALSE, error |-> <<"missing_file1_or_file2">>], st)
          [] action = "knowledge_sync" ->
               IF st.km = "none" THEN Ret(knowledge_unavailable, st)
               ELSE IF st.km = "fails"
               THEN Ret([success |-> FALSE, error |-> <<"knowledge_sync_failed">>], h)
               ELSE Ret([success |-> TRUE, message |-> <<"knowledge_synced">>],
                        Log(h, "effect", <<"sync_knowledge_base">>))
          [] action = "knowledge_stats" ->
               IF st.km = "none" THEN Ret(knowledge_unavailable, st)
               ELSE IF st.km = "fails"
               THEN Ret([success |-> FALSE, error |-> <<"knowledge_stats_failed">>], h)
               ELSE Ret([success |-> TRUE, stats |-> [total_documents |-> 0]], h)
          [] action = "knowledge_search" ->
               IF st.km = "none" THEN Ret(knowledge_unavailable, st)
               ELSE IF ~Truthy(GetDefault(params, "query", ""))
               THEN Ret([success |-> FALSE, error |-> <<"missing_query">>], st)
               ELSE IF st.km = "fails"
               THEN Ret([success |-> FALSE, error |-> <<"knowledge_search_failed">>], h)
               ELSE Ret([success |-> TRUE, results |-> <<>>, query |-> params.query], h)
          [] OTHER -> Ret(unknown_action, st)
    IN  Leave(st, out)

\* ------------------------------------------------------------------ state
VARIABLES
    work_directory,     \* self.work_directory
    dirs, files,        \* the file tree: the paths that are directories, that are files
    operation_results,  \* self.operation_results
    conversation_history, \* self.conversation_history
    stream,             \* run(): stream_gen, what call_ai returned, as far as it is consumed
    interrupt,          \* the suspension point at which Ctrl-C was typed, "none" if it was not
    launch,             \* main(): what the program is started with
    exit_code,          \* the value main() hands to sys.exit, None while it runs
    user_input,         \* run(): user_input, the line read at the turn-start prompt
    pc,                 \* where run() stands: "AwaitingUserInput", "Thinking", "Acting",
                        \* "Exited"; "Caller" when execute_command is called directly
    next_input,         \* run(): next_input
    last_result,        \* run(): last_result
    prompt,             \* the arguments and prompt parts of the latest call_ai
    ai_response,        \* run(): ai_response
    command,            \* run(): command
    result,             \* what the latest execute_command returned or raised
    trace,              \* the calls, prompts and effects of the latest execute_command
    model_calls,        \* calls of call_ai since the user's line was read
    dispatches,         \* calls of execute_command since the user's line was read
    history_manager,    \* self.history_manager, where the input history is followed
    stdin               \* the lines still to be read from a piped standard input

vars == <<work_directory, dirs, files, operation_results, conversation_history, stream,
          interrupt, launch, exit_code, user_input, pc, next_input, last_result, prompt, ai_response, command,
          result, trace, model_calls, dispatches, history_manager, stdin>>

\* Python's None for a dict-valued variable
NoDict == <<>>

\* no stream at hand
NoStream == [kind |-> "none", rest |-> <<>>, buffer |-> <<>>, user_input |-> NoDict]

\* ------------------------------------------------------------ environment
Answers == {"y", "Y", "n", "yes"}

\* the sequences over S of length n
SeqsOf(S, n) == {[i \in 1..n |-> f[i]] : f \in [1..n -> S]}

RECURSIVE SeqsUpTo(_, _)
\* the sequences over S of length at most n
SeqsUpTo(S, n) ==
    IF n = 0 THEN {<<>>}
    ELSE LET shorter == SeqsUpTo(S, n - 1)
         IN  shorter \cup {Append(q, x) : q \in shorter, x \in S}

\* What the environment may do during one dispatch.  The user is at the
\* terminal and answers each prompt; no command of the model asks more than
\* MaxAnswers times.
\* The knowledge manager is absent (its packages are not installed), works,
\* or fails; it varies only where nothing else goes wrong.
Envs ==
    {e \in [answers : SeqsOf(Answers, MaxAnswers), rc : BOOLEAN, repo : BOOLEAN,
            refused : {{}, {"a.tmp"}}, km : {"none", "works", "fails"}] :
        e.km = "none" \/ (e.rc /\ e.repo /\ e.refused = {})}

\* the environments of the loop's commands, which start no subprocess
\* The loop's commands prompt at most once, run no subprocess and no git:
\* the environments that differ in what they read.
\* At the prompt the user may also type Ctrl-C, which input() raises as
\* KeyboardInterrupt.
LoopEnvs ==
    {[answers |-> [i \in 1..MaxAnswers |-> IF i = 1 THEN a ELSE "y"],
      rc |-> TRUE, repo |-> TRUE, refused |-> {}, km |-> "none"] : a \in {"y", "n", "^C"}}

\* The file trees an agent may be started on, with its work directory.
FsConfigs ==
    {[dirs |-> {Root, <<"d">>}, files |-> {<<"a.tmp">>, <<"b.tmp">>, <<"s.py">>}, wd |-> Root],
     [dirs |-> {Root, <<"d">>}, files |-> {<<"a.tmp">>}, wd |-> Root],
     [dirs |-> {Root}, files |-> {}, wd |-> Root],
     [dirs |-> {Root, <<"d">>}, files |-> {<<"d", "a.tmp">>, <<"b.tmp">>}, wd |-> <<"d">>]}

\* the file trees the interactive loop is started on
LoopConfigs == {c \in FsConfigs : c.wd = Root /\ <<"s.py">> \in c.files}

\* the dispatch state at the entry of a top-level execute_command
Start(env) ==
    [work_directory |-> work_directory, cwd |-> Root, dirs |-> dirs, files |-> files,
     answers |-> env.answers, rc |-> env.rc, repo |-> env.repo, refused |-> env.refused,
     km |-> env.km,
     trace |-> <<>>, call |-> 0, calls |-> 0, depth |-> 0, handler |-> ""]

\* --------------------------------------------------------------- commands
Cmd(action, params) == [action |-> action, params |-> params]

Last(c, flag) == [k \in DOMAIN c \cup {"last_action"} |-> IF k = "last_action" THEN flag ELSE c[k]]

NoParams == <<>>

\* commands with their required parameters, one or more per action
GoodCommands ==
    {Cmd("delete", [file_name |-> "a.tmp"]), Cmd("delete", [path |-> "b.tmp"]),
     Cmd("delete", [name |-> "d"]), Cmd("delete", [file_name |-> "*.tmp"]),
     Cmd("delete", [file_name |-> "*.log"]),
     Cmd("shell", [command |-> "ls"]), Cmd("shell", [command |-> " "]),
     Cmd("script", [filename |-> "n", content |-> "x"]),
     Cmd("script", [filename |-> "s.py", content |-> "x"]),
     Cmd("git", [command |-> "status"]), Cmd("git", [command |-> "push"]),
     Cmd("git", [command |-> "PUSH"]), Cmd("git", [command |-> "commit", args |-> "-m x"]),
     Cmd("git", [command |-> "push origin"]), Cmd("git", [command |-> " push"]),
     Cmd("cd", [path |-> "d"]), Cmd("cd", [path |-> ".."]), Cmd("cd", [path |-> "n"]),
     Cmd("cd", [path |-> "a.tmp"]),
     Cmd("rename", [old_name |-> "a.tmp", new_name |-> "n"]),
     Cmd("move", [source |-> "a.tmp", destination |-> "d"]),
     Cmd("move", [source |-> "*.tmp", destination |-> "n"]),
     Cmd("mkdir", [path |-> "n"]), Cmd("mkdir", [path |-> "d"]),
     Cmd("info", [file_name |-> "a.tmp"]), Cmd("info", [path |-> "n"]),
     Cmd("read", [path |-> "a.tmp"]), Cmd("summarize", [path |-> "a.tmp"]),
     Cmd("analyze_image", [path |-> "a.tmp"]),
     Cmd("ffmpeg", [source |-> "a.tmp", target |-> "n"]),
     Cmd("diff", [file1 |-> "a.tmp", file2 |-> "b.tmp"]),
     Cmd("list", NoParams), Cmd("list", [path |-> "d"]), Cmd("cls", NoParams),
     Cmd("knowledge_sync", NoParams), Cmd("knowledge_stats", NoParams),
     Cmd("knowledge_search", [query |-> "x"]), Cmd("knowledge_search", NoParams)}

\* the actions whose handler takes a required parameter
RequiredParamActions ==
    {"cd", "rename", "move", "delete", "mkdir", "info", "read", "summarize", "analyze_image",
     "shell", "script", "ffmpeg", "git", "diff"}

\* commands that lack a required parameter: none given, or one of two
LackingCommands ==
    {Cmd(a, NoParams) : a \in RequiredParamActions}
        \cup {Cmd("rename", [old_name |-> "a.tmp"]), Cmd("move", [destination |-> "d"]),
              Cmd("script", [filename |-> "n"]), Cmd("ffmpeg", [source |-> "a.tmp"]),
              Cmd("diff", [file2 |-> "b.tmp"]), Cmd("delete", [file_name |-> ""])}

\* the action names execute_command has a branch for
RecognizedActions ==
    {"cls", "batch", "list", "cd", "rename", "move", "delete", "mkdir", "info", "ffmpeg",
     "summarize", "shell", "script", "read", "analyze_image", "git", "diff",
     "knowledge_sync", "knowledge_stats", "knowledge_search"}

\* commands whose action is none of them: another name, the loop's marker
\* done, a recognized name in upper case, no action at all
UnknownCommands ==
    {Cmd("frobnicate", NoParams), Cmd("done", NoParams), Cmd("LIST", NoParams),
     Cmd("frobnicate", [path |-> "d"]), [params |-> [path |-> "d"]]}

\* the sub-commands batches are built from
SubCommands ==
    {Cmd("delete", [file_name |-> "a.tmp"]), Cmd("delete", [file_name |-> "*.tmp"]),
     Cmd("mkdir", [path |-> "n"]), Cmd("mkdir", NoParams)}

Batch(commands) == Cmd("batch", [commands |-> commands])

BatchCommands ==
    {Batch(q) : q \in SeqsUpTo(SubCommands, MaxBatch)}
        \cup {Batch(<<Batch(<<c, Cmd("mkdir", [path |-> "n"])>>), Cmd("cls", NoParams)>>) :
                c \in SubCommands}
        \cup {Cmd("batch", NoParams)}

\* the commands a caller may hand to execute_command
Commands == GoodCommands \cup LackingCommands \cup UnknownCommands \cup BatchCommands

\* ------------------------------------------- execute_command called directly
\* A caller (the repository's tests and demos do this) constructs the agent over
\* some file tree and calls execute_command once.
InitCall ==
    /\ \E c \in FsConfigs : work_directory = c.wd /\ dirs = c.dirs /\ files = c.files
    /\ operation_results = <<>> /\ conversation_history = <<>>
    /\ stream = NoStream /\ interrupt = "none"
    /\ launch = NoDict /\ exit_code = None
    /\ history_manager = NoDict /\ stdin = NoDict
    /\ pc = "Caller" /\ user_input = ""
    /\ next_input = NoDict /\ last_result = NoDict /\ prompt = NoDict
    /\ ai_response = <<>> /\ command = NoDict /\ result = NoDict /\ trace = <<>>
    /\ model_calls = 0 /\ dispatches = 0

Call ==
    /\ pc = "Caller" /\ dispatches = 0
    /\ \E c \in Commands, env \in Envs :
          LET out == execute_command(c, Start(env))
          IN  /\ command' = c
              /\ result' = out.result
              /\ trace' = out.st.trace
              /\ work_directory' = out.st.work_directory
              /\ dirs' = out.st.dirs
              /\ files' = out.st.files
    /\ dispatches' = 1
    /\ UNCHANGED <<operation_results, conversation_history, stream, interrupt, user_input, pc,
                   next_input, last_result, prompt, ai_response, model_calls>>
    /\ UNCHANGED <<launch, exit_code, history_manager, stdin>>

NextCall == Call

CallSpec == InitCall /\ [][NextCall]_vars

\* ------------------------------------- execute_command called repeatedly
\* the commands of a session: changes of directory, and commands that
\* change the tree or read it
SessionCommands ==
    {Cmd("cd", [path |-> "d"]), Cmd("cd", [path |-> ".."]), Cmd("cd", [path |-> "n"]),
     Cmd("cd", [path |-> "a.tmp"]), Cmd("cd", [path |-> "/"]),
     Cmd("mkdir", [path |-> "n"]), Cmd("delete", [file_name |-> "d"]),
     Cmd("list", NoParams), Cmd("list", [path |-> "n"]),
     Cmd("info", [file_name |-> "a.tmp"]),
     Cmd("diff", [file1 |-> "a.tmp", file2 |-> "a.tmp"]),
     Cmd("batch", [commands |-> <<Cmd("mkdir", [path |-> "n"]), Cmd("cd", [path |-> "n"])>>])}

\* every prompt of the session is answered y
SessionEnv ==
    [answers |-> [i \in 1..MaxAnswers |-> "y"], rc |-> TRUE, repo |-> TRUE, refused |-> {},
     km |-> "none"]

\* A caller (test_directory_switching does this) constructs the agent over
\* some file tree and calls execute_command several times.
InitSession ==
    /\ \E c \in FsConfigs : work_directory = c.wd /\ dirs = c.dirs /\ files = c.files
    /\ operation_results = <<>> /\ conversation_history = <<>>
    /\ stream = NoStream /\ interrupt = "none"
    /\ launch = NoDict /\ exit_code = None
    /\ history_manager = NoDict /\ stdin = NoDict
    /\ pc = "Session" /\ user_input = ""
    /\ next_input = NoDict /\ last_result = NoDict /\ prompt = NoDict
    /\ ai_response = <<>> /\ command = NoDict /\ result = NoDict /\ trace = <<>>
    /\ model_calls = 0 /\ dispatches = 0

SessionCall ==
    /\ pc = "Session" /\ dispatches < MaxSession
    /\ \E c \in SessionCommands :
          LET out == execute_command(c, Start(SessionEnv))
          IN  /\ command' = c
              /\ result' = out.result
              /\ trace' = out.st.trace
              /\ work_directory' = out.st.work_directory
              /\ dirs' = out.st.dirs
              /\ files' = out.st.files
    /\ dispatches' = dispatches + 1
    /\ UNCHANGED <<operation_results, conversation_history, stream, interrupt, user_input, pc,
                   next_input, last_result, prompt, ai_response, model_calls>>
    /\ UNCHANGED <<launch, exit_code, history_manager, stdin>>

NextSession == SessionCall

SessionSpec == InitSession /\ [][NextSession]_vars

\* ------------------------------------------------------ the entry points
\* The providers a configuration may name; "acme" is one no branch accepts.
Providers == {"openai", "openwebui", "ollama", "acme"}

\* a model entry of config.json: empty, or a provider with its parameters
ModelConfigs ==
    {NoDict} \cup {[provider |-> p, params |-> q] :
                     p \in Providers, q \in {NoDict, [model |-> "m"]}}

VisionConfigs == {NoDict, [provider |-> "ollama", params |-> [model |-> "v"]]}

\* what json.load may give for config.json
Configs ==
    {NoDict}
      \cup {[normal_model |-> n] : n \in ModelConfigs}
      \cup {[vision_model |-> v] : v \in VisionConfigs}
      \cup {[normal_model |-> n, vision_model |-> v] : n \in ModelConfigs, v \in VisionConfigs}

\* the ollama package and service: not installed, not reachable, or serving
\* some models
Ollamas ==
    {o \in [installed : BOOLEAN, up : BOOLEAN, models : {{}, {"other"}, {"m", "gemma3:4b"}}] :
        /\ ~o.installed => ~o.up
        /\ ~o.up => o.models = {}}

\* How the constructed agent's run() ends: the user types exit; Ctrl-C is
\* caught inside the loop; Ctrl-C at the prompt calls sys.exit(0); or the
\* constructor raises.
Endings == {"exit", "interrupt", "sys_exit", "error"}

\* What a program is started with: the program, config.json (absent,
\* unreadable, or its content), the command-line arguments, ollama, and
\* how the session ends if it starts.
Launches ==
    {l \in [program : {"main.py", "run_agent.py"}, file : {"none", "unreadable", "read"},
            config : Configs, argv : {<<>>, <<"d">>, <<"n">>}, ollama : Ollamas,
            ending : Endings] :
        /\ l.file # "read" => l.config = NoDict
        /\ l.program = "run_agent.py" => l.file = "none"}

\* agent = ...Agent(...); agent.run(); return 0, with the except clauses
\* around it; SystemExit(0) leaves main() and is the exit code
RunAgent(ending) == IF ending = "error" THEN 1 ELSE 0

\* the ollama checks return 1
OllamaFails(o, model_name) ==
    \/ ~o.installed
    \/ ~o.up
    \/ (model_name \notin o.models /\ o.models = {})

\* main() of main.py: the exit code, None where the agent is not started,
\* with the directory the agent is constructed on
main(l) ==
    LET config == IF l.file = "read" THEN l.config ELSE NoDict
        normal_config == GetDefault(config, "normal_model", NoDict)
        vision_config == GetDefault(config, "vision_model", NoDict)
        provider == GetDefault(normal_config, "provider", "unknown")
        params == GetDefault(normal_config, "params", NoDict)
        model_name == GetDefault(params, "model", "unknown")
        runs == [started |-> TRUE, code |-> RunAgent(l.ending)]
        fails == [started |-> FALSE, code |-> 1]
    IN  IF config = NoDict THEN fails
        ELSE IF normal_config = NoDict THEN fails
        ELSE IF vision_config # NoDict THEN runs
        ELSE IF provider = "openai" /\ params # NoDict THEN runs
        ELSE IF provider = "openwebui" /\ params # NoDict THEN runs
        ELSE IF provider = "ollama" /\ params # NoDict
             THEN IF OllamaFails(l.ollama, model_name) THEN fails ELSE runs
        ELSE fails

\* main() of run_agent.py
run_agent_main(l) ==
    LET runs == [started |-> TRUE, code |-> RunAgent(l.ending)]
        fails == [started |-> FALSE, code |-> 1]
    IN  IF Len(l.argv) > 0 /\ Join(Root, l.argv[1]) \notin (dirs \cup files) THEN fails
        ELSE IF OllamaFails(l.ollama, "gemma3:4b") THEN fails
        ELSE runs

InitMain ==
    /\ \E c \in LoopConfigs : work_directory = c.wd /\ dirs = c.dirs /\ files = c.files
    /\ operation_results = <<>> /\ conversation_history = <<>>
    /\ stream = NoStream /\ interrupt = "none"
    /\ launch \in Launches /\ exit_code = None
    /\ history_manager = NoDict /\ stdin = NoDict
    /\ pc = "Launched" /\ user_input = ""
    /\ next_input = NoDict /\ last_result = NoDict /\ prompt = NoDict
    /\ ai_response = <<>> /\ command = NoDict /\ result = NoDict /\ trace = <<>>
    /\ model_calls = 0 /\ dispatches = 0

\* python main.py [argv]: the arguments are not read, the agent is
\* constructed with work_directory=None, the current directory
Main ==
    /\ pc = "Launched" /\ launch.program = "main.py"
    /\ exit_code' = main(launch).code
    /\ pc' = IF main(launch).started THEN "Ran" ELSE "Refused"
    /\ UNCHANGED <<work_directory, dirs, files, operation_results, conversation_history, stream,
                   interrupt, launch, user_input, next_input, last_result, prompt, ai_response,
                   command, result, trace, model_calls, dispatches, history_manager, stdin>>

\* python run_agent.py [argv]: the agent is constructed on sys.argv[1]
RunAgentMain ==
    /\ pc = "Launched" /\ launch.program = "run_agent.py"
    /\ exit_code' = run_agent_main(launch).code
    /\ pc' = IF run_agent_main(launch).started THEN "Ran" ELSE "Refused"
    /\ work_directory' = IF run_agent_main(launch).started /\ Len(launch.argv) > 0
                         THEN Join(Root, launch.argv[1]) ELSE work_directory
    /\ UNCHANGED <<dirs, files, operation_results, conversation_history, stream,
                   interrupt, launch, user_input, next_input, last_result, prompt, ai_response,
                   command, result, trace, model_calls, dispatches, history_manager, stdin>>

NextMain == Main \/ RunAgentMain

MainSpec == InitMain /\ [][NextMain]_vars

\* ------------------------------------------ action_delete_file called alone
\* the targets of the calls: patterns and names
DeleteNames == {"*.tmp", "?.tmp", "*.log", "a.tmp", "d"}

\* the environments of the calls: what the user answers and which entries
\* the operating system refuses to delete
DeleteEnvs == {e \in Envs : e.km = "none" /\ e.rc /\ e.repo}

InitDelete ==
    /\ \E c \in FsConfigs : work_directory = c.wd /\ dirs = c.dirs /\ files = c.files
    /\ operation_results = <<>> /\ conversation_history = <<>>
    /\ stream = NoStream /\ interrupt = "none"
    /\ launch = NoDict /\ exit_code = None
    /\ history_manager = NoDict /\ stdin = NoDict
    /\ pc = "Handler" /\ user_input = ""
    /\ next_input = NoDict /\ last_result = NoDict /\ prompt = NoDict
    /\ ai_response = <<>> /\ command = NoDict /\ result = NoDict /\ trace = <<>>
    /\ model_calls = 0 /\ dispatches = 0

\* action_delete_file(file_name, False), as the delete branch of
\* execute_command calls it
DeleteCall ==
    /\ pc = "Handler" /\ dispatches < MaxSession
    /\ \E file_name \in DeleteNames, env \in DeleteEnvs :
          LET out == action_delete_file(file_name, FALSE,
                                        [Start(env) EXCEPT !.handler = "delete"])
          IN  /\ command' = Cmd("delete", [file_name |-> file_name])
              /\ result' = out.result
              /\ trace' = out.st.trace
              /\ dirs' = out.st.dirs
              /\ files' = out.st.files
    /\ dispatches' = dispatches + 1
    /\ UNCHANGED <<work_directory, operation_results, conversation_history, stream, interrupt,
                   user_input, pc, next_input, last_result, prompt, ai_response, model_calls>>
    /\ UNCHANGED <<launch, exit_code, history_manager, stdin>>

NextDelete == DeleteCall

DeleteSpec == InitDelete /\ [][NextDelete]_vars

\* ---------------------------------------------------------- the reply
\* The text of a reply is a sequence of tokens: the fence marker ``` (with or
\* without the tag json), a newline, words of prose (no brace, no quote, no
\* backtick), the one-line text of an object, and the three parts of an
\* object written over several lines.  An object token says whether its text
\* holds "action" in quotes, whether json.loads accepts it, and the value.
FenceTok == [t |-> "fence"]
NL == [t |-> "nl"]
Words == [t |-> "words"]
Obj(v) == [t |-> "obj", valid |-> TRUE, value |-> v, action_text |-> "action" \in DOMAIN v]
\* {"note": "action"}: the word as a value, not a key
ObjMention == [t |-> "obj", valid |-> TRUE, value |-> [note |-> "action"], action_text |-> TRUE]
\* {"action": oops}: not JSON
BadObj == [t |-> "obj", valid |-> FALSE, value |-> NoDict, action_text |-> TRUE]
Open == [t |-> "open"]
Members(v) == [t |-> "members", value |-> v, action_text |-> "action" \in DOMAIN v]
Close == [t |-> "close"]

\* the object v pretty-printed over several lines
MultiLine(v) == <<Open, NL, Members(v), NL, Close>>

StartsBrace(tok) == tok.t \in {"obj", "open"}
EndsBrace(tok) == tok.t \in {"obj", "close"}
ActionText(tok) == tok.t \in {"obj", "members"} /\ tok.action_text

\* the first index from i on that is not white space (Len(text) + 1 if none)
RECURSIVE SkipSpace(_, _)
SkipSpace(text, i) ==
    IF i > Len(text) \/ text[i].t # "nl" THEN i ELSE SkipSpace(text, i + 1)

\* \s*``` at i: the index of the fence marker, or 0
FenceAfter(text, i) ==
    LET f == SkipSpace(text, i)
    IN  IF f <= Len(text) /\ text[f].t = "fence" THEN f ELSE 0

\* The match of ```(?:json)?\s*(\{.*?"action".*?\})\s*``` that starts at the
\* fence marker i, as [from, to, next]: the group is text[from..to], the
\* search goes on at next.  Lazy quantifiers: the first "action" after the
\* brace, then the first closing brace followed by \s*```, wherever they are
\* (the dot matches newlines and fence markers).  to = 0: no match at i.
MatchAt(text, i) ==
    LET from == SkipSpace(text, i + 1)
        actions == {a \in from..Len(text) : ActionText(text[a])}
        a == CHOOSE x \in actions : \A y \in actions : x <= y
        closers == {k \in a..Len(text) : EndsBrace(text[k]) /\ FenceAfter(text, k + 1) # 0}
        k == CHOOSE x \in closers : \A y \in closers : x <= y
    IN  IF text[i].t # "fence" \/ from > Len(text) \/ ~StartsBrace(text[from])
           \/ actions = {} \/ closers = {}
        THEN [from |-> 0, to |-> 0, next |-> i + 1]
        ELSE [from |-> from, to |-> k, next |-> FenceAfter(text, k + 1) + 1]

\* re.findall: the groups of the non-overlapping matches, left to right
RECURSIVE FindAll(_, _)
FindAll(text, i) ==
    IF i > Len(text) THEN <<>>
    ELSE LET m == MatchAt(text, i)
         IN  IF m.to = 0 THEN FindAll(text, i + 1)
             ELSE <<SubSeq(text, m.from, m.to)>> \o FindAll(text, m.next)

\* str.strip() of a piece of text
RECURSIVE StripText(_)
StripText(text) ==
    IF text = <<>> THEN text
    ELSE IF Head(text).t = "nl" THEN StripText(Tail(text))
    ELSE IF text[Len(text)].t = "nl" THEN StripText(SubSeq(text, 1, Len(text) - 1))
    ELSE text

\* json.loads: [ok, value]; only the text of one whole object parses
JsonLoads(text) ==
    IF Len(text) = 1 /\ text[1].t = "obj" /\ text[1].valid
    THEN [ok |-> TRUE, value |-> text[1].value]
    ELSE IF Len(text) >= 3 /\ text[1].t = "open" /\ text[Len(text)].t = "close"
            /\ LET inner == StripText(SubSeq(text, 2, Len(text) - 1))
               IN  Len(inner) = 1 /\ inner[1].t = "members"
    THEN [ok |-> TRUE, value |-> StripText(SubSeq(text, 2, Len(text) - 1))[1].value]
    ELSE [ok |-> FALSE, value |-> NoDict]

\* (variant) any object that parses
ParsesAny(text) == JsonLoads(text).ok

\* json.loads succeeded and "action" in parsed
Parses(text) == JsonLoads(text).ok /\ "action" \in DOMAIN JsonLoads(text).value

\* text.split('\n')
RECURSIVE SplitLines(_)
SplitLines(text) ==
    LET nls == {i \in DOMAIN text : text[i].t = "nl"}
        n == CHOOSE x \in nls : \A y \in nls : x <= y
    IN  IF nls = {} THEN <<text>>
        ELSE <<SubSeq(text, 1, n - 1)>> \o SplitLines(SubSeq(text, n + 1, Len(text)))

\* line.startswith('{') and '"action"' in line, and it parses
GoodLine(line) ==
    /\ line # <<>> /\ StartsBrace(line[1])
    /\ \E i \in DOMAIN line : ActionText(line[i])
    /\ Parses(line)

\* (variant) the first candidate that json.loads rejects ends the search
extract_json_command_abort(text) ==
    LET groups == FindAll(text, 1)
        lines == SelectSeq(SplitLines(text),
                           LAMBDA l : /\ l # <<>> /\ StartsBrace(l[1])
                                      /\ \E i \in DOMAIN l : ActionText(l[i]))
    IN  IF groups # <<>> /\ ~JsonLoads(StripText(groups[1])).ok THEN NoDict
        ELSE IF groups # <<>> /\ Parses(StripText(groups[1]))
        THEN JsonLoads(StripText(groups[1])).value
        ELSE IF lines # <<>> /\ Parses(lines[1]) THEN JsonLoads(lines[1]).value
        ELSE NoDict

extract_json_command(text) ==
    LET code_matches == SelectSeq(FindAll(text, 1), LAMBDA g : Parses(StripText(g)))
        lines == SelectSeq(SplitLines(text), GoodLine)
    IN  IF code_matches # <<>> THEN JsonLoads(StripText(code_matches[1])).value
        ELSE IF lines # <<>> THEN JsonLoads(lines[1]).value
        ELSE NoDict

\* the pieces replies are made of: a line of prose, a fenced block around a
\* payload, a payload on a line of its own
Prose == <<Words, NL>>
FencedBlock(payload) == <<FenceTok, NL>> \o payload \o <<NL, FenceTok, NL>>
Fence(c) == FencedBlock(<<Obj(c)>>)
BadFence == FencedBlock(<<BadObj>>)
Line(c) == <<Obj(c), NL>>

\* the text of the chunks
RECURSIVE Concat(_)
Concat(chunks) == IF chunks = <<>> THEN <<>> ELSE Head(chunks) \o Concat(Tail(chunks))

\* ------------------------------------------- the extractor called alone
\* the payloads of the texts: two commands on one line, one over several
\* lines, an object without the key, one that mentions the word, one that
\* is not JSON
CmdA == Cmd("list", NoParams)
CmdB == Cmd("cd", [path |-> "d"])
NoKey == [note |-> "n"]
Payloads ==
    {<<Obj(CmdA)>>, <<Obj(CmdB)>>, MultiLine(CmdA), <<Obj(NoKey)>>, <<ObjMention>>, <<BadObj>>}

\* a line that starts with a brace and holds "action" but is not JSON
BadLine == <<BadObj, NL>>

Pieces ==
    {FencedBlock(q) : q \in Payloads} \cup {Line(CmdA), Line(CmdB), BadLine, Prose}

\* the texts of at most MaxPieces pieces
Texts == {Concat(q) : q \in SeqsUpTo(Pieces, MaxPieces)}

InitExtract ==
    /\ work_directory = Root /\ dirs = {Root} /\ files = {}
    /\ operation_results = <<>> /\ conversation_history = <<>>
    /\ stream = NoStream /\ interrupt = "none"
    /\ launch = NoDict /\ exit_code = None
    /\ history_manager = NoDict /\ stdin = NoDict
    /\ pc = "Extractor" /\ user_input = ""
    /\ next_input = NoDict /\ last_result = NoDict /\ prompt = NoDict
    /\ ai_response \in Texts
    /\ command = NoDict /\ result = NoDict /\ trace = <<>>
    /\ model_calls = 0 /\ dispatches = 0

Extract ==
    /\ pc = "Extractor"
    /\ command' = extract_json_command(ai_response)
    /\ pc' = "Extracted"
    /\ UNCHANGED <<work_directory, dirs, files, operation_results, conversation_history,
                   stream, interrupt, user_input, next_input, last_result, prompt,
                   ai_response, result, trace, model_calls, dispatches>>
    /\ UNCHANGED <<launch, exit_code, history_manager, stdin>>

NextExtract == Extract

ExtractSpec == InitExtract /\ [][NextExtract]_vars

\* the commands the model proposes in the loop
LoopCommands ==
    {Last(Cmd("list", NoParams), TRUE), Cmd("list", NoParams),
     Last(Cmd("delete", [file_name |-> "a.tmp"]), TRUE)}

DoneCommand == Cmd("done", NoParams)

\* replies from which a command to dispatch is extracted, as the chunks the
\* stream delivers; in one the fenced block comes first
ActingReplies ==
    {<<Prose, Fence(c)>> : c \in LoopCommands} \cup {<<Fence(Cmd("list", NoParams)), Prose>>}

\* replies that end the exchange: no command at all, or done
EndingReplies == {<<Prose>>, <<BadFence>>, <<Fence(DoneCommand)>>}


\* ------------------------------------------------------------- the loop
\* The tokens of a JSON text written by json.dumps.
JOpen == [j |-> "{"]
JClose == [j |-> "}"]
JKey(k) == [j |-> "key", k |-> k]
JBool(b) == [j |-> IF b THEN "true" ELSE "false"]
JStr(x) == [j |-> "str", s |-> x]
\* the text of any other value (a number, a list, a dict of parameters)
JText(v) == [j |-> "text", v |-> v]

\* the keys whose values are strings in every Result
StringKeys == {"error", "message", "warning"}

RECURSIVE DumpMembers(_, _)
RECURSIVE DumpMembersTruthy(_, _)

\* the text of the value v of the key k
DumpValue(k, v) ==
    CASE k = "success" -> <<JBool(v)>>
      [] k \in StringKeys -> <<JStr(v)>>
      [] k = "result" -> <<JOpen>> \o DumpMembers(v, DOMAIN v) \o <<JClose>>
      [] OTHER -> <<JText(v)>>

\* (variant) a success that is false is left out of the text
DumpMembersTruthy(d, keys) ==
    IF keys = {} THEN <<>>
    ELSE LET k == CHOOSE x \in keys : TRUE
         IN  (IF k = "success" /\ ~d[k] THEN <<>> ELSE <<JKey(k)>> \o DumpValue(k, d[k]))
                 \o DumpMembersTruthy(d, keys \ {k})

\* the members of the dict d with the keys given, each key followed by its
\* value
DumpMembers(d, keys) ==
    IF keys = {} THEN <<>>
    ELSE LET k == CHOOSE x \in keys : TRUE
         IN  <<JKey(k)>> \o DumpValue(k, d[k]) \o DumpMembers(d, keys \ {k})

\* json.dumps(v, ensure_ascii=False): the JSON text of the dict v
JsonDumps(v) == <<JOpen>> \o DumpMembers(v, DOMAIN v) \o <<JClose>>

\* the first next_input of an exchange: the user's line
UserText(u) == [prefix |-> u, body |-> <<>>]

\* (variant) the prefix alone
ResultTextBare(entry) == [prefix |-> "execution result: ", body |-> <<>>]

\* "命令执行结果：" + json.dumps(self.operation_results[-1])
ResultText(entry) == [prefix |-> "execution result: ", body |-> JsonDumps(entry)]

\* the user's lines.  "s" names the script s.py of the work directory, "cd d"
\* and "list" match system_cmd_patterns, "tidy up" is left to the model.
UserInputs ==
    {"exit", "cls", "clear history", "help", "", "s", "cd d", "list", "tidy up"}

\* user_input.lower() in ['exit', 'quit', ...]
IsExit(u) == Lower(u) \in {"exit", "quit"}

\* (variant) only the empty line is handled locally
IsBuiltinEmptyOnly(u) == u = ""

\* the built-in lines that are handled and followed by continue
IsBuiltin(u) == Lower(u) \in {"cls", "clear", "clear history", "help"} \/ u = ""

\* _is_executable_file: a file of the work directory with one of the known
\* script extensions appended to the first word
IsExecutableFile(u) == u = "s" /\ Append(work_directory, "s.py") \in files

\* system_cmd_re.match(user_input): ^(dir|ls|list)(\s+.+)?$ and ^cd(\s+.+)?$
\* are among the patterns
IsSystemCommand(u) == u \in {"cd d", "list"}

\* messages = self.conversation_history[-5:]
HistoryWindow == 5

LastN(q, n) == IF Len(q) <= n THEN q ELSE SubSeq(q, Len(q) - n + 1, Len(q))

Init ==
    /\ \E c \in LoopConfigs : work_directory = c.wd /\ dirs = c.dirs /\ files = c.files
    /\ operation_results = <<>> /\ conversation_history = <<>>
    /\ stream = NoStream /\ interrupt = "none"
    /\ launch = NoDict /\ exit_code = None
    /\ history_manager = NoDict /\ stdin = NoDict
    /\ pc = "AwaitingUserInput" /\ user_input = ""
    /\ next_input = NoDict /\ last_result = NoDict /\ prompt = NoDict
    /\ ai_response = <<>> /\ command = NoDict /\ result = NoDict /\ trace = <<>>
    /\ model_calls = 0 /\ dispatches = 0

\* The line u is read at the turn-start prompt.  The locals of the inner
\* loop hold nothing the program can still read: they are unbound here.
NewTurn(u) ==
    /\ user_input' = u
    /\ next_input' = NoDict /\ last_result' = NoDict /\ prompt' = NoDict
    /\ ai_response' = <<>> /\ command' = NoDict /\ result' = NoDict /\ trace' = <<>>
    /\ model_calls' = 0 /\ dispatches' = 0
    /\ stream' = NoStream

\* exit, quit: break
Exit ==
    /\ pc = "AwaitingUserInput"
    /\ \E u \in UserInputs : IsExit(u) /\ NewTurn(u)
    /\ pc' = "Exited"
    /\ UNCHANGED <<work_directory, dirs, files, operation_results, conversation_history,
                   interrupt>>
    /\ UNCHANGED <<launch, exit_code, history_manager, stdin>>

\* help, the empty line: handled locally, continue
Builtin ==
    /\ pc = "AwaitingUserInput"
    /\ \E u \in UserInputs : ~IsExit(u) /\ IsBuiltin(u) /\ NewTurn(u)
    /\ UNCHANGED <<work_directory, dirs, files, operation_results, conversation_history,
                   interrupt, pc>>
    /\ UNCHANGED <<launch, exit_code, history_manager, stdin>>

\* the line is run by the terminal itself: an executable file, or a system
\* command other than cd
RunsDirectly(u) ==
    /\ ~IsExit(u) /\ ~IsBuiltin(u)
    /\ IsExecutableFile(u) \/ (IsSystemCommand(u) /\ u # "cd d")

\* an executable file or a system command other than cd: run as a subprocess
\* of the terminal, continue
DirectExecute ==
    /\ pc = "AwaitingUserInput"
    /\ \E u \in UserInputs : RunsDirectly(u) /\ NewTurn(u)
    /\ UNCHANGED <<work_directory, dirs, files, operation_results, conversation_history,
                   interrupt, pc>>
    /\ UNCHANGED <<launch, exit_code, history_manager, stdin>>

\* cd typed by the user: action_change_directory is called directly
DirectCd ==
    /\ pc = "AwaitingUserInput"
    /\ \E u \in UserInputs :
          /\ ~IsExit(u) /\ ~IsBuiltin(u) /\ ~IsExecutableFile(u) /\ u = "cd d"
          /\ NewTurn(u)
    /\ LET out == action_change_directory("d", Start(CHOOSE e \in LoopEnvs : TRUE))
       IN  work_directory' = out.st.work_directory
    /\ UNCHANGED <<dirs, files, operation_results, conversation_history, interrupt, pc>>
    /\ UNCHANGED <<launch, exit_code, history_manager, stdin>>

\* any other line starts an exchange with the model: next_input is the line
StartExchange ==
    /\ pc = "AwaitingUserInput"
    /\ \E u \in UserInputs :
          /\ ~IsExit(u) /\ ~IsBuiltin(u) /\ ~IsExecutableFile(u) /\ ~IsSystemCommand(u)
          /\ user_input' = u
          /\ next_input' = UserText(u)
    /\ last_result' = NoDict /\ prompt' = NoDict
    /\ ai_response' = <<>> /\ command' = NoDict /\ result' = NoDict /\ trace' = <<>>
    /\ model_calls' = 0 /\ dispatches' = 0
    /\ stream' = NoStream
    /\ pc' = "Thinking"
    /\ UNCHANGED <<work_directory, dirs, files, operation_results, conversation_history,
                   interrupt>>
    /\ UNCHANGED <<launch, exit_code, history_manager, stdin>>

\* (variant) the flag looked up in the params
TerminatesByParams(c, r) ==
    GetDefault(r, "success", TRUE) /\ GetDefault(GetDefault(c, "params", NoDict), "last_action", FALSE)

\* (variant) the flag alone decides
TerminatesOnFlag(c, r) == GetDefault(c, "last_action", FALSE)

\* the termination check at the end of the inner loop's body
Terminates(c, r) == GetDefault(r, "success", TRUE) /\ GetDefault(c, "last_action", FALSE)

\* (variant) only the upper-case marker ends the exchange
IsDoneUpper(c) == Get(c, "action") = "DONE"

\* command.get("action") == "done"
IsDone(c) == Get(c, "action") = "done"

\* (variant) a reply without a command is asked for again
AfterReplyRetry(c) ==
    IF c = NoDict THEN "Thinking" ELSE IF IsDone(c) THEN "AwaitingUserInput" ELSE "Acting"

\* where the loop goes once the command is extracted: break on no command
\* and on done, else on to execute_command
AfterReply(c) == IF c = NoDict \/ IsDone(c) THEN "AwaitingUserInput" ELSE "Acting"

\* the text call_ai returns in place of a stream when the request fails
RequestFailed == <<<<Words>>>>

\* call_ai(next_input, context=json.dumps(last_result), stream=True): the
\* messages are built and the request is sent.  What comes back is the
\* generator over the provider's response, which has not run yet, or, when
\* the request failed, the text of the error message.
CallModel ==
    /\ pc = "Thinking"
    /\ prompt' = [user_input |-> next_input,
                  context |-> IF last_result # NoDict THEN JsonDumps(last_result) ELSE <<>>,
                  work_directory |-> work_directory,
                  recent |-> IF operation_results # <<>>
                             THEN <<operation_results[Len(operation_results)]>> ELSE <<>>,
                  messages |-> LastN(conversation_history, HistoryWindow)]
    /\ model_calls' = model_calls + 1
    /\ \/ /\ Len(conversation_history) < 2 * MaxCalls
          /\ \E reply \in EndingReplies \cup
                          (IF Len(operation_results) < MaxLog THEN ActingReplies ELSE {}) :
                stream' = [kind |-> "gen", rest |-> reply, buffer |-> <<>>,
                           user_input |-> next_input]
       \/ stream' = [kind |-> "text", rest |-> RequestFailed, buffer |-> <<>>,
                     user_input |-> next_input]
    /\ ai_response' = <<>>
    /\ pc' = "Streaming"
    /\ UNCHANGED <<work_directory, dirs, files, operation_results, conversation_history,
                   interrupt, user_input, next_input, last_result, command, result, trace,
                   dispatches>>
    /\ UNCHANGED <<launch, exit_code, history_manager, stdin>>

\* for chunk in stream_gen: one chunk is printed and added to ai_response;
\* the generator adds it to its buffer
Chunk ==
    /\ pc = "Streaming"
    /\ stream.rest # <<>>
    /\ ai_response' = ai_response \o Head(stream.rest)
    /\ stream' = [stream EXCEPT !.rest = Tail(@),
                                !.buffer = IF stream.kind = "gen"
                                           THEN @ \o Head(stream.rest) ELSE @]
    /\ UNCHANGED <<work_directory, dirs, files, operation_results, conversation_history,
                   interrupt, user_input, pc, next_input, last_result, prompt, command,
                   result, trace, model_calls, dispatches>>
    /\ UNCHANGED <<launch, exit_code, history_manager, stdin>>

\* the two messages the generator appends once the response is read through
Exchange(s) == <<[role |-> "user", content |-> s.user_input],
                 [role |-> "assistant", content |-> s.buffer]>>

\* (variant) the two messages are appended whatever was read
HistoryAfterAlways(s, drained) == conversation_history \o Exchange(s)

\* conversation_history after the stream s stopped: extended only by a
\* generator that was read through
HistoryAfter(s, drained) ==
    IF s.kind = "gen" /\ drained THEN conversation_history \o Exchange(s)
    ELSE conversation_history

\* The stream is exhausted: the generator appends the user message and the
\* assistant message and stops; the loop extracts the command.
StreamEnd ==
    /\ pc = "Streaming"
    /\ stream.rest = <<>>
    /\ conversation_history' = HistoryAfter(stream, TRUE)
    /\ stream' = [stream EXCEPT !.kind = "drained"]
    /\ command' = extract_json_command(ai_response)
    /\ pc' = AfterReply(command')
    /\ UNCHANGED <<work_directory, dirs, files, operation_results, interrupt, user_input,
                   next_input, last_result, prompt, ai_response, result, trace, model_calls,
                   dispatches>>
    /\ UNCHANGED <<launch, exit_code, history_manager, stdin>>

\* Reading the provider's response fails: the generator raises into the
\* for loop of run(), whose except clause prints the error; the loop goes
\* on with what was read.
StreamFail ==
    /\ pc = "Streaming"
    /\ stream.kind = "gen"
    /\ conversation_history' = HistoryAfter(stream, FALSE)
    /\ stream' = [stream EXCEPT !.kind = "raised"]
    /\ command' = extract_json_command(ai_response)
    /\ pc' = AfterReply(command')
    /\ UNCHANGED <<work_directory, dirs, files, operation_results, interrupt, user_input,
                   next_input, last_result, prompt, ai_response, result, trace, model_calls,
                   dispatches>>
    /\ UNCHANGED <<launch, exit_code, history_manager, stdin>>

\* (variant) the interrupt is caught like an error
UnwindsNever(r) == FALSE

\* (variant) every exception ends the loop
UnwindsAlways(r) == Raised(r)

\* except KeyboardInterrupt: break takes what except Exception lets through
Unwinds(r) == Raised(r) /\ r.exception = "KeyboardInterrupt"

\* The rest of the pass: execute_command, the operation log, next_input and
\* the termination check.  An exception of execute_command reaches run()'s
\* except clause, which prints it and goes back to the turn-start prompt;
\* Ctrl-C at a confirmation prompt ends the loop.
\* a handler consulted the model itself: self.call_ai(prompt) of
\* action_summarize_file and action_intelligent_filter, call_ai_multimodal of
\* action_analyze_image
ConsultsModel(e) ==
    /\ e.kind = "effect"
    /\ e.arg[1] \in {"call_ai", "call_ai_multimodal"}

\* the messages those calls leave behind: without stream=True call_ai appends
\* the prompt it was given and the reply it returns
RECURSIVE HandlerExchanges(_)
HandlerExchanges(tr) ==
    IF tr = <<>> THEN <<>>
    ELSE IF ConsultsModel(Head(tr))
    THEN <<[role |-> "user", content |-> UserText(Head(tr).arg[1])],
           [role |-> "assistant", content |-> <<Words>>]>> \o HandlerExchanges(Tail(tr))
    ELSE HandlerExchanges(Tail(tr))

Dispatch ==
    /\ pc = "Acting"
    /\ dispatches' = dispatches + 1
    /\ \E env \in LoopEnvs : \E out \in {execute_command(command, Start(env))} :
          LET entry == [command |-> command, result |-> out.result,
                        timestamp |-> Len(operation_results) + 1]
          IN  /\ result' = out.result
              /\ trace' = out.st.trace
              /\ conversation_history' =
                     conversation_history \o HandlerExchanges(out.st.trace)
              /\ work_directory' = out.st.work_directory
              /\ dirs' = out.st.dirs
              /\ files' = out.st.files
              /\ interrupt' = IF out.result = KeyboardInterrupt
                              THEN "confirmation_prompt" ELSE interrupt
              /\ IF Raised(out.result)
                 THEN /\ pc' = IF Unwinds(out.result) THEN "Exited" ELSE "AwaitingUserInput"
                      /\ UNCHANGED <<operation_results, last_result, next_input>>
                 ELSE /\ operation_results' = Append(operation_results, entry)
                      /\ last_result' = out.result
                      /\ next_input' = ResultText(entry)
                      /\ pc' = IF Terminates(command, out.result)
                               THEN "AwaitingUserInput" ELSE "Thinking"
    /\ UNCHANGED <<stream, user_input, prompt, ai_response, command, model_calls>>
    /\ UNCHANGED <<launch, exit_code, history_manager, stdin>>

\* Ctrl-C at the turn-start prompt: _get_user_input_with_history prints a
\* farewell and calls sys.exit(0); no line was read
InterruptPrompt ==
    /\ pc = "AwaitingUserInput"
    /\ NewTurn(user_input)
    /\ interrupt' = "turn_start_prompt"
    /\ pc' = "Exited"
    /\ UNCHANGED <<work_directory, dirs, files, operation_results, conversation_history>>
    /\ UNCHANGED <<launch, exit_code, history_manager, stdin>>

\* Ctrl-C while the subprocess of a directly run line is waited for
InterruptSubprocess ==
    /\ pc = "AwaitingUserInput"
    /\ \E u \in UserInputs : RunsDirectly(u) /\ NewTurn(u)
    /\ interrupt' = "subprocess"
    /\ pc' = "Exited"
    /\ UNCHANGED <<work_directory, dirs, files, operation_results, conversation_history>>
    /\ UNCHANGED <<launch, exit_code, history_manager, stdin>>

\* Ctrl-C while the reply is streamed: the for loop is left through
\* except KeyboardInterrupt, the generator is dropped unfinished and the
\* locals of the inner loop with it
InterruptStream ==
    /\ pc = "Streaming"
    /\ NewTurn(user_input)
    /\ interrupt' = "stream"
    /\ pc' = "Exited"
    /\ UNCHANGED <<work_directory, dirs, files, operation_results, conversation_history>>
    /\ UNCHANGED <<launch, exit_code, history_manager, stdin>>

Next ==
    \/ Exit
    \/ Builtin
    \/ DirectExecute
    \/ DirectCd
    \/ StartExchange
    \/ CallModel
    \/ Chunk
    \/ StreamEnd
    \/ StreamFail
    \/ Dispatch
    \/ InterruptPrompt
    \/ InterruptSubprocess
    \/ InterruptStream

Spec == Init /\ [][Next]_vars

\* the response is read through: StreamEnd can be taken, and leaves this
\* position
ReadThrough == pc = "Streaming" /\ stream.rest = <<>>

\* a command waits to be executed: Dispatch can be taken, and leaves this
\* position
Waiting == pc = "Acting"

\* the steps of run() into and inside a user exchange; the lines run()
\* answers at the prompt without the model are left to Spec
NextExchange ==
    \/ StartExchange
    \/ CallModel
    \/ Chunk
    \/ StreamEnd
    \/ StreamFail
    \/ Dispatch
    \/ InterruptStream

\* run() left to itself goes on: a call of the model is made, the response
\* is read chunk by chunk and through, the command extracted is dispatched.
\* What the user and the provider do (a line typed, Ctrl-C, a failing
\* response) may or may not happen.  The last two conjuncts are
\* WF_vars(StreamEnd) and WF_vars(Dispatch), stated on the positions at
\* which the two actions are enabled.
LiveSpec ==
    Init /\ [][NextExchange]_vars
         /\ WF_vars(CallModel) /\ WF_vars(Chunk)
         /\ []<>(~ReadThrough) /\ []<>(~Waiting)

\* --------------------------------------- the provider's streamed response
\* A line of the response as resp.iter_lines() gives it: how it starts
\* ("data: ", "data:" without the blank, or otherwise: an empty line, a
\* comment), and what follows: the marker [DONE] (with or without blanks
\* around it), the JSON of a chunk with choices[0].delta, JSON without
\* choices, or text that is not JSON.  content is the delta's content:
\* a text, "", null, or no such key.
NoContentKey == "<absent>"
SseLine(prefix, kind, content) == [prefix |-> prefix, kind |-> kind, content |-> content]

SseLines ==
    {SseLine("data: ", "delta", c) : c \in {"a", "b", "", None, NoContentKey}}
      \cup {SseLine("data: ", "not_json", NoContentKey),
            SseLine("data: ", "no_choices", NoContentKey),
            SseLine("data: ", "done", NoContentKey),
            SseLine("", "empty", NoContentKey),
            SseLine("", "done", NoContentKey),
            SseLine("data:", "delta", "a")}

\* not line or not line.startswith("data: ")
NotData(line) == line.kind = "empty" \/ line.prefix # "data: "

\* (variant) the marker is not looked for
IsDoneMarkerNever(line) == FALSE

\* data.strip() == "[DONE]"
IsDoneMarker(line) == line.kind = "done"

\* json.loads(data)["choices"][0]["delta"].get("content", ""): the value, or
\* an exception when the text is not JSON or holds no choice
DeltaOf(line) ==
    IF line.kind # "delta" THEN [exception |-> "Exception"]
    ELSE [content |-> IF line.content = NoContentKey THEN "" ELSE line.content]

\* The request was accepted and call_ai returned gen(), which has not run:
\* the response holds up to MaxLines lines.
InitSse ==
    /\ \E c \in LoopConfigs : work_directory = c.wd /\ dirs = c.dirs /\ files = c.files
    /\ operation_results = <<>> /\ conversation_history = <<>>
    /\ \E lines \in SeqsUpTo(SseLines, MaxLines) :
          stream = [kind |-> "gen", lines |-> lines, rest |-> lines, buffer |-> <<>>,
                    user_input |-> UserText("tidy up")]
    /\ interrupt = "none"
    /\ launch = NoDict /\ exit_code = None
    /\ history_manager = NoDict /\ stdin = NoDict
    /\ pc = "Streaming" /\ user_input = "tidy up"
    /\ next_input = UserText("tidy up") /\ last_result = NoDict /\ prompt = NoDict
    /\ ai_response = <<>> /\ command = NoDict /\ result = NoDict /\ trace = <<>>
    /\ model_calls = 1 /\ dispatches = 0

\* one pass of `for line in resp.iter_lines()` that does not leave the loop:
\* the line is skipped, or its delta is added to the buffer and yielded to
\* run(), which adds it to ai_response
SseStep ==
    /\ pc = "Streaming" /\ stream.kind = "gen" /\ stream.rest # <<>>
    /\ LET line == Head(stream.rest)
           delta == DeltaOf(line)
           yields == ~NotData(line) /\ ~Raised(delta) /\ Truthy(delta.content)
       IN  /\ NotData(line) \/ ~IsDoneMarker(line)
           /\ stream' = [stream EXCEPT !.rest = Tail(@),
                                       !.buffer = IF yields THEN Append(@, delta.content)
                                                  ELSE @]
           /\ ai_response' = IF yields THEN Append(ai_response, delta.content)
                             ELSE ai_response
    /\ UNCHANGED <<work_directory, dirs, files, operation_results, conversation_history,
                   interrupt, user_input, pc, next_input, last_result, prompt, command,
                   result, trace, model_calls, dispatches>>
    /\ UNCHANGED <<launch, exit_code, history_manager, stdin>>

\* the loop over the lines ends, at the marker or at the end of the
\* response: the two messages are appended and the generator stops
SseStop ==
    /\ pc = "Streaming" /\ stream.kind = "gen"
    /\ \/ stream.rest = <<>>
       \/ /\ stream.rest # <<>>
          /\ ~NotData(Head(stream.rest)) /\ IsDoneMarker(Head(stream.rest))
    /\ conversation_history' = conversation_history \o Exchange(stream)
    /\ stream' = [stream EXCEPT !.kind = "drained"]
    /\ pc' = "Streamed"
    /\ UNCHANGED <<work_directory, dirs, files, operation_results, interrupt, user_input,
                   next_input, last_result, prompt, ai_response, command, result, trace,
                   model_calls, dispatches>>
    /\ UNCHANGED <<launch, exit_code, history_manager, stdin>>

NextSse == SseStep \/ SseStop

SseSpec == InitSse /\ [][NextSse]_vars

\* ------------------------------------------- call_ai on a longer history
\* the replies of the exchanges that came before: read through, with no
\* command to dispatch
PastReplies == {<<Prose>>, <<Fence(DoneCommand)>>}

RECURSIVE HistoryOf(_)
\* conversation_history after the exchanges with these replies
HistoryOf(replies) ==
    IF replies = <<>> THEN <<>>
    ELSE Exchange([user_input |-> UserText("tidy up"), buffer |-> Head(replies)[1]])
           \o HistoryOf(Tail(replies))

\* The user has had up to MaxExchanges exchanges, each read through, and
\* has typed the next line: run() is about to call the model.
InitHistory ==
    /\ \E c \in LoopConfigs : work_directory = c.wd /\ dirs = c.dirs /\ files = c.files
    /\ operation_results = <<>>
    /\ \E replies \in SeqsUpTo(PastReplies, MaxExchanges) :
          conversation_history = HistoryOf(replies)
    /\ stream = NoStream /\ interrupt = "none"
    /\ launch = NoDict /\ exit_code = None
    /\ history_manager = NoDict /\ stdin = NoDict
    /\ pc = "Thinking" /\ user_input = "tidy up"
    /\ next_input = UserText("tidy up") /\ last_result = NoDict /\ prompt = NoDict
    /\ ai_response = <<>> /\ command = NoDict /\ result = NoDict /\ trace = <<>>
    /\ model_calls = 0 /\ dispatches = 0

NextHistory == CallModel

HistorySpec == InitHistory /\ [][NextHistory]_vars

\* ------------------------------------------- the loop after the first reply
\* commands the first reply of an exchange may hold
FirstCommands ==
    LoopCommands \cup
        {Cmd("delete", [file_name |-> "*.tmp"]),
         Last(Cmd("delete", [file_name |-> "*.tmp"]), TRUE),
         Cmd("mkdir", [path |-> "n"]),
         Cmd("cd", [path |-> "d"]),
         Cmd("summarize", [path |-> "a.tmp"])}

\* The user typed a line, the model was called once and its reply, prose
\* and a fenced command, was read through: run() has extracted the command.
InitActing ==
    /\ \E c \in FsConfigs : work_directory = c.wd /\ dirs = c.dirs /\ files = c.files
    /\ operation_results = <<>>
    /\ interrupt = "none"
    /\ launch = NoDict /\ exit_code = None
    /\ history_manager = NoDict /\ stdin = NoDict
    /\ user_input = "tidy up"
    /\ next_input = UserText("tidy up") /\ last_result = NoDict
    /\ prompt = [user_input |-> next_input, context |-> <<>>,
                 work_directory |-> work_directory, recent |-> <<>>, messages |-> <<>>]
    /\ \E c \in FirstCommands :
          /\ ai_response = Prose \o Fence(c)
          /\ stream = [kind |-> "drained", rest |-> <<>>, buffer |-> ai_response,
                       user_input |-> next_input]
    /\ conversation_history = Exchange(stream)
    /\ command = extract_json_command(ai_response)
    /\ pc = AfterReply(command)
    /\ result = NoDict /\ trace = <<>>
    /\ model_calls = 1 /\ dispatches = 0

NextActing == Dispatch \/ CallModel \/ Chunk \/ StreamEnd

ActingSpec == InitActing /\ [][NextActing]_vars

\* ------------------------------------------------------ the input history
\* The state of a HistoryManager is a record: history, current_index,
\* max_entries and history_file, the list stored in history.json.

\* q[-n:]
LastSlice(q, n) == IF n = 0 THEN q ELSE LastN(q, n)

\* (variant) the list is never cut
TrimmedNever(q, max_entries) == q

\* self.history[-self.max_entries:] if it is longer than max_entries
Trimmed(q, max_entries) == IF Len(q) > max_entries THEN LastSlice(q, max_entries) ELSE q

\* HistoryManager(config_dir, max_entries) with load_history(): stored is
\* the list in history.json, empty when the file is missing or unreadable
HistoryManager(stored, max_entries) ==
    [history |-> Trimmed(stored, max_entries), current_index |-> -1,
     max_entries |-> max_entries, history_file |-> stored]

\* (variant) the last entry is not looked at
RepeatsLastNever(hm, line) == FALSE

\* history[-1] == command.strip()
RepeatsLast(hm, line) ==
    hm.history # <<>> /\ hm.history[Len(hm.history)] = Strip(line)

\* add_entry(command); save_history writes the list kept
add_entry(hm, line) ==
    IF ~Truthy(Strip(line)) THEN hm
    ELSE IF RepeatsLast(hm, line) THEN hm
    ELSE LET kept == Trimmed(Append(hm.history, Strip(line)), hm.max_entries)
         IN  [hm EXCEPT !.history = kept, !.history_file = kept, !.current_index = -1]

\* (variant) at the oldest entry the index steps on
OldestStepsOn(hm) == [hm |-> [hm EXCEPT !.current_index = @ - 1], value |-> None]

\* get_previous() at current_index 0: already at the first entry
OldestStays(hm) == [hm |-> hm, value |-> None]

\* get_previous(): the new state and the value returned
get_previous(hm) ==
    IF hm.history = <<>> THEN [hm |-> hm, value |-> None]
    ELSE IF hm.current_index = -1
    THEN [hm |-> [hm EXCEPT !.current_index = Len(hm.history) - 1],
          value |-> hm.history[Len(hm.history)]]
    ELSE IF hm.current_index > 0
    THEN [hm |-> [hm EXCEPT !.current_index = @ - 1], value |-> hm.history[hm.current_index]]
    ELSE OldestStays(hm)

\* get_next(): the new state and the value returned
get_next(hm) ==
    IF hm.history = <<>> \/ hm.current_index = -1 THEN [hm |-> hm, value |-> None]
    ELSE IF hm.current_index < Len(hm.history) - 1
    THEN [hm |-> [hm EXCEPT !.current_index = @ + 1],
          value |-> hm.history[hm.current_index + 2]]
    ELSE [hm |-> [hm EXCEPT !.current_index = -1], value |-> None]

reset_index(hm) == [hm EXCEPT !.current_index = -1]

clear_history(hm) == [hm EXCEPT !.history = <<>>, !.current_index = -1, !.history_file = <<>>]

\* _get_user_input_with_history() reading the line raw, then the lines of
\* run() that record it: reset_index, input(prompt).strip(), add_entry if the
\* line is not empty, and add_entry again in run()
get_user_input(hm, raw) ==
    LET line == Strip(raw)
        first == IF Truthy(line) THEN add_entry(reset_index(hm), line) ELSE reset_index(hm)
    IN  [hm |-> IF Truthy(Strip(line)) THEN add_entry(first, line) ELSE first,
         user_input |-> line]

\* the largest max_entries a manager is created with, and the number of
\* calls followed
MaxEntries == 2
MaxOps == 3

\* the commands handed to add_entry and typed at the prompt
RawCommands == {"a", " a", "a ", "b", "", " "}

\* what history.json may hold: nothing, or lists written by earlier
\* sessions or by hand
StoredHistories == {<<>>, <<"a">>, <<"a", "b">>, <<"b", "b", "a">>}

\* the variables a call of the HistoryManager leaves alone
besides_history ==
    <<work_directory, dirs, files, operation_results, conversation_history, stream, interrupt,
      launch, exit_code, pc, next_input, last_result, prompt, ai_response, command,
      model_calls, dispatches, stdin>>

\* A HistoryManager was created; its methods are called in any order.  trace
\* keeps the calls made, result the latest call and the value it returned.
InitHistoryManager ==
    /\ work_directory = Root /\ dirs = {Root} /\ files = {}
    /\ operation_results = <<>> /\ conversation_history = <<>>
    /\ stream = NoDict /\ interrupt = "none"
    /\ launch = NoDict /\ exit_code = None /\ stdin = NoDict
    /\ user_input = None /\ pc = "Caller"
    /\ next_input = None /\ last_result = NoDict
    /\ prompt = NoDict /\ ai_response = <<>> /\ command = NoDict
    /\ model_calls = 0 /\ dispatches = 0
    /\ \E stored \in StoredHistories, max_entries \in 1..MaxEntries :
          /\ history_manager = HistoryManager(stored, max_entries)
          /\ result = [call |-> "__init__", arg |-> stored, value |-> None]
          /\ trace = <<[call |-> "__init__", arg |-> stored]>>

\* the call made, with the value it returns and the state it leaves
Called(call, arg, value, hm) ==
    /\ pc = "Caller"
    /\ Len(trace) <= MaxOps
    /\ history_manager' = hm
    /\ result' = [call |-> call, arg |-> arg, value |-> value]
    /\ trace' = Append(trace, [call |-> call, arg |-> arg])
    /\ UNCHANGED besides_history

AddEntry ==
    \E c \in RawCommands :
        Called("add_entry", c, None, add_entry(history_manager, c)) /\ UNCHANGED user_input

GetPrevious ==
    /\ Called("get_previous", None, get_previous(history_manager).value,
              get_previous(history_manager).hm)
    /\ UNCHANGED user_input

GetNext ==
    /\ Called("get_next", None, get_next(history_manager).value, get_next(history_manager).hm)
    /\ UNCHANGED user_input

ResetIndex ==
    Called("reset_index", None, None, reset_index(history_manager)) /\ UNCHANGED user_input

ClearHistory ==
    Called("clear_history", None, None, clear_history(history_manager)) /\ UNCHANGED user_input

\* run() reads a line at the prompt and records it
GetUserInput ==
    \E raw \in RawCommands :
        /\ Called("_get_user_input_with_history", raw, get_user_input(history_manager, raw).user_input,
                  get_user_input(history_manager, raw).hm)
        /\ user_input' = get_user_input(history_manager, raw).user_input

NextHistoryManager ==
    AddEntry \/ GetPrevious \/ GetNext \/ ResetIndex \/ ClearHistory \/ GetUserInput

HistoryManagerSpec == InitHistoryManager /\ [][NextHistoryManager]_vars

\* ------------------------------------------------ run() on a piped input
\* Standard input is a pipe or a file: it holds some lines, and once they
\* are read every input() raises EOFError.
MaxPiped == 3

\* the lines piped in: those run() answers itself
PipedLines == {"exit", "clear history", "help", " help", "", " "}

\* what a read at the prompt leaves alone
besides_input ==
    <<work_directory, dirs, files, operation_results, conversation_history, stream, launch,
      exit_code, next_input, last_result, prompt, ai_response, command, trace, model_calls,
      dispatches>>

InitPiped ==
    /\ work_directory = Root /\ dirs = {Root} /\ files = {}
    /\ operation_results = <<>> /\ conversation_history = <<>>
    /\ stream = NoStream /\ interrupt = "none"
    /\ launch = NoDict /\ exit_code = None
    /\ pc = "AwaitingUserInput" /\ user_input = ""
    /\ next_input = NoDict /\ last_result = NoDict /\ prompt = NoDict
    /\ ai_response = <<>> /\ command = NoDict /\ result = NoDict /\ trace = <<>>
    /\ model_calls = 0 /\ dispatches = 0
    /\ \E stored \in StoredHistories, max_entries \in 1..MaxEntries :
          history_manager = HistoryManager(stored, max_entries)
    /\ \E lines \in SeqsUpTo(PipedLines, MaxPiped) : stdin = [lines |-> lines]

\* user_input = self._get_user_input_with_history() returns the next line;
\* run() records it and answers it: exit breaks, clear history empties the
\* input history, help, clear screen and the empty line go back to the prompt
ReadPiped ==
    /\ pc = "AwaitingUserInput"
    /\ stdin.lines # <<>>
    /\ LET got == get_user_input(history_manager, Head(stdin.lines))
       IN  /\ user_input' = got.user_input
           /\ history_manager' = IF got.user_input = "clear history"
                                 THEN clear_history(got.hm) ELSE got.hm
           /\ pc' = IF got.user_input = "exit" THEN "Exited" ELSE "AwaitingUserInput"
    /\ stdin' = [stdin EXCEPT !.lines = Tail(@)]
    /\ result' = NoDict
    /\ UNCHANGED besides_input /\ UNCHANGED interrupt

\* input(prompt) raises EOFError: _get_user_input_with_history, which has
\* reset the index, catches KeyboardInterrupt only, so the error reaches the
\* except Exception clause of run()
ReadEof ==
    /\ pc = "AwaitingUserInput"
    /\ stdin.lines = <<>>
    /\ history_manager' = reset_index(history_manager)
    /\ result' = [exception |-> "EOFError"]
    /\ pc' = "Handling"
    /\ UNCHANGED besides_input /\ UNCHANGED <<interrupt, user_input, stdin>>

\* except Exception as e: the error is printed, and while True reads again
HandleError ==
    /\ pc = "Handling"
    /\ pc' = "AwaitingUserInput"
    /\ UNCHANGED besides_input
    /\ UNCHANGED <<interrupt, user_input, stdin, history_manager, result>>

NextPiped == ReadPiped \/ ReadEof \/ HandleError \/ InterruptPrompt

\* run() goes on reading and handling by itself; Ctrl-C may never be typed
PipedSpec ==
    InitPiped /\ [][NextPiped]_vars
              /\ WF_vars(ReadPiped) /\ WF_vars(ReadEof) /\ WF_vars(HandleError)

\* ------------------------------------------ properties of execute_command
\* the answers that confirm: 'y' in either case
Affirmative == {"y", "Y"}

Events == DOMAIN trace

\* The subcommand git runs for a command field: its first word.
GitSubcommand(text) ==
    CASE text = "push origin" -> "push"
      [] text = " push" -> "push"
      [] OTHER -> text

\* An effect the confirmation gate is there for: a deletion, a subprocess
\* started by shell, a script written, a git write subcommand run.
GatedEffect(e) ==
    /\ e.kind = "effect"
    /\ \/ e.handler \in {"delete", "shell", "script"}
       \/ e.handler = "git" /\ GitSubcommand(e.arg[3]) \in write_commands

\* a prompt that was answered (not interrupted) with something else
DeclinedPrompt(e) ==
    e.kind = "prompt" /\ ~Interrupted(e.arg[1]) /\ e.arg[1] \notin Affirmative

\* C1: whenever a confirmation prompt of a gated handler is answered with
\* anything other than 'y' or 'Y', that call of the handler performs no
\* effect (no file is deleted or created, no subprocess is started) and
\* returns a Result with success = false.
C1_DeclineHasNoEffect ==
    \A i \in Events :
        DeclinedPrompt(trace[i]) =>
            /\ \A j \in Events : ~(trace[j].kind = "effect" /\ trace[j].call = trace[i].call)
            /\ \E j \in Events :
                  /\ j > i
                  /\ trace[j].kind = "return"
                  /\ trace[j].call = trace[i].call
                  /\ trace[j].arg[1].success = FALSE

\* C1 witness: a single delete of an existing file was declined with "yes";
\* the file is still there.
C1_Witness ==
    /\ pc = "Caller" /\ dispatches = 1
    /\ command = Cmd("delete", [file_name |-> "a.tmp"])
    /\ \E i \in Events : trace[i].kind = "prompt" /\ trace[i].arg = <<"yes">>
    /\ <<"a.tmp">> \in files
    /\ result.success = FALSE

\* C2 (as claimed): every gated effect is performed only after a
\* confirmation prompt of the same call was answered affirmatively,
\* whatever the params.
C2_EffectOnlyAfterConsent ==
    \A i \in Events :
        GatedEffect(trace[i]) =>
            \E j \in Events :
                /\ j < i
                /\ trace[j].kind = "prompt"
                /\ trace[j].call = trace[i].call
                /\ trace[j].arg[1] \in Affirmative

\* the execute events of the sub-commands of the top-level command
ChildCalls == SelectSeq(trace, LAMBDA e : e.kind = "execute" /\ e.depth = 1)

\* the return events of calls at depth 1
ChildReturns == SelectSeq(trace, LAMBDA e : e.kind = "return" /\ e.depth = 1)

\* C8 (as claimed): a batch dispatches each of its n sub-commands exactly
\* once and in order, whatever the earlier ones did, and returns n results
\* with results[i].action = ci.action, results[i].result the Result of ci,
\* and success the AND of the children's success.
C8_BatchRunsEveryChild ==
    (pc = "Caller" /\ dispatches = 1 /\ Get(command, "action") = "batch"
        /\ "commands" \in DOMAIN command.params) =>
        LET cs == command.params.commands
        IN  /\ Len(ChildCalls) = Len(cs)
            /\ \A i \in 1..Len(cs) : ChildCalls[i].arg = <<cs[i].action>>
            /\ ~Raised(result)
            /\ Len(result.results) = Len(cs)
            /\ Len(ChildReturns) = Len(cs)
            /\ \A i \in 1..Len(cs) :
                  /\ result.results[i].action = cs[i].action
                  /\ result.results[i].result = ChildReturns[i].arg[1]
            /\ result.success = (\A i \in 1..Len(cs) : result.results[i].result.success)

\* C9 (as claimed): execute_command returns a Result with a boolean success
\* for every command and lets no exception pass to its caller.
C9_ExecuteNeverRaises ==
    (pc = "Caller" /\ dispatches = 1) =>
        /\ ~Raised(result)
        /\ "success" \in DOMAIN result
        /\ result.success \in BOOLEAN

\* the errors execute_command gives for a missing parameter
MissingParamErrors ==
    {<<"missing_file_name">>, <<"missing_source_or_target">>, <<"missing_path">>,
     <<"missing_command">>, <<"missing_filename_or_content">>, <<"missing_file1_or_file2">>}

\* C10 (as claimed): a command of an action with a required parameter that
\* lacks the parameter yields success = false with a missing-parameter error,
\* which is not the unknown-action error, and no handler is invoked.
C10_MissingParamRejected ==
    (pc = "Caller" /\ dispatches = 1 /\ command \in LackingCommands) =>
        /\ ~Raised(result)
        /\ result.success = FALSE
        /\ result.error \in MissingParamErrors
        /\ result.error # unknown_action.error
        /\ \A i \in Events : trace[i].kind # "invoke"

\* C11: a call of execute_command with an action name outside the
\* recognized set (a missing name included) returns success = false with
\* the unknown-action error, invokes no handler and performs no effect, and
\* leaves the work directory, the conversation history, the operation log
\* and the file tree as they were.
C11_UnknownRejected ==
    [][(dispatches = 0 /\ dispatches' = 1 /\ Get(command', "action") \notin RecognizedActions)
         => /\ result' = [success |-> FALSE, error |-> <<"unknown_action_type">>]
            /\ \A i \in DOMAIN trace' : trace'[i].kind \notin {"invoke", "effect", "prompt"}
            /\ work_directory' = work_directory
            /\ conversation_history' = conversation_history
            /\ operation_results' = operation_results
            /\ dirs' = dirs /\ files' = files]_vars

\* C11 witness: execute_command was called with the action frobnicate and
\* returned a failure.
C11_Witness ==
    /\ pc = "Caller" /\ dispatches = 1
    /\ command = Cmd("frobnicate", [path |-> "d"])
    /\ result.success = FALSE

\* a Result that tells a decline from a failure of the operation
DeclineShaped(r) ==
    /\ "success" \in DOMAIN r /\ r.success = FALSE
    /\ "confirmation_needed" \in DOMAIN r /\ r.confirmation_needed = FALSE
    /\ "warning" \in DOMAIN r

\* C17 (as claimed): whenever the confirmation prompt of a gated handler
\* (delete, shell, script, a git write subcommand) is declined, the Result
\* that call of the handler returns has success = false,
\* confirmation_needed = false and a warning.
C17_DeclineIsDistinguishable ==
    \A i \in Events :
        DeclinedPrompt(trace[i]) =>
            \E j \in Events :
                /\ j > i
                /\ trace[j].kind = "return"
                /\ trace[j].call = trace[i].call
                /\ DeclineShaped(trace[j].arg[1])

\* the call is a delete whose target is a wildcard pattern that no entry
\* of the work directory matches
WildcardMatchesNothing(c, wd, entries) ==
    /\ Get(c, "action") = "delete"
    /\ "file_name" \in DOMAIN c.params
    /\ HasWildcard(c.params.file_name)
    /\ \A p \in entries :
          (Len(p) = Len(wd) + 1 /\ IsPrefix(wd, p)) => ~FnMatch(p[Len(p)], c.params.file_name)

\* C18: a delete whose target is a wildcard pattern matching zero files
\* returns success = false with the no-matching-files error naming the
\* pattern, asks for no confirmation and deletes nothing.
C18_EmptyWildcardRejected ==
    [][(dispatches = 0 /\ dispatches' = 1
          /\ WildcardMatchesNothing(command', work_directory, dirs \cup files))
         => /\ result' = [success |-> FALSE,
                          error |-> <<"no_matching_files", command'.params.file_name>>]
            /\ \A i \in DOMAIN trace' : trace'[i].kind \notin {"prompt", "effect"}
            /\ dirs' = dirs /\ files' = files]_vars

\* C18 witness: *.tmp was to be deleted in a work directory without files.
C18_Witness ==
    /\ pc = "Caller" /\ dispatches = 1
    /\ command = Cmd("delete", [file_name |-> "*.tmp"])
    /\ files = {} /\ work_directory = Root
    /\ result.success = FALSE /\ result.error = <<"no_matching_files", "*.tmp">>

\* C30: a Result with success false carries an error, and no Result has
\* confirmation_needed true together with success true.
C30_FailureCarriesError ==
    (result # NoDict /\ ~Raised(result) /\ "success" \in DOMAIN result)
        => /\ ~result.success => "error" \in DOMAIN result
           /\ result.success => ~GetDefault(result, "confirmation_needed", FALSE)

\* ---------------------------------------- properties of the wildcard delete
\* the prompts a trace holds
Prompts(t) == SelectSeq(t, LAMBDA e : e.kind = "prompt")

\* what the pattern of the call matches in the tree the call starts on
MatchedBefore ==
    Glob([work_directory |-> work_directory, dirs |-> dirs, files |-> files],
         command'.params.file_name)

\* C29: a delete whose wildcard pattern matches at least one file prompts
\* exactly once; after the answer y the Result lists every matched file in
\* order, a file is reported deleted exactly if it is gone, the files whose
\* deletion failed are still there, and success is the conjunction of the
\* per-file outcomes.
C29_WildcardPromptsOnce ==
    [][(dispatches' = dispatches + 1 /\ HasWildcard(command'.params.file_name)
          /\ MatchedBefore # <<>>)
         => /\ Len(Prompts(trace')) = 1
            /\ ~Declined(Prompts(trace')[1].arg[1]) =>
                  /\ "deleted" \in DOMAIN result'
                  /\ Len(result'.deleted) = Len(MatchedBefore)
                  /\ \A i \in 1..Len(MatchedBefore) :
                        /\ result'.deleted[i].file = MatchedBefore[i]
                        /\ result'.deleted[i].success
                             <=> MatchedBefore[i] \notin (dirs' \cup files')
                  /\ result'.success <=>
                        \A i \in 1..Len(MatchedBefore) : result'.deleted[i].success]_vars

\* a.tmp could not be deleted, b.tmp after it was
C29_Witness ==
    /\ pc = "Handler"
    /\ command = Cmd("delete", [file_name |-> "*.tmp"])
    /\ Len(Prompts(trace)) = 1
    /\ "deleted" \in DOMAIN result /\ Len(result.deleted) = 2
    /\ ~result.deleted[1].success /\ result.deleted[2].success
    /\ ~result.success
    /\ <<"a.tmp">> \in files /\ <<"b.tmp">> \notin files

\* ------------------------------------------------- properties of cd
\* the step is a call of execute_command with a cd
CdCalled == dispatches' = dispatches + 1 /\ Get(command', "action") = "cd"

\* a path that names an entry of the work directory: not ., .. or /
PlainName(path) == path \notin {"", ".", "..", "/"}

CdSucceeded ==
    \E i \in DOMAIN trace' :
        /\ trace'[i].kind = "return" /\ trace'[i].handler = "cd"
        /\ trace'[i].arg[1].success

\* C22: in a session of calls, a call changes the work directory only if a
\* cd (the command itself or a sub-command of a batch) succeeded in it: a
\* failed cd and every other action leave it unchanged.  A work directory
\* that is set was an existing directory at that call.
C22_OnlyCdMoves ==
    [][(dispatches' = dispatches + 1 /\ work_directory' # work_directory)
         => /\ CdSucceeded
            /\ work_directory' \in dirs \cup dirs']_vars

\* C22 witness: a batch made the directory n and moved into it; then a cd
\* to a.tmp, which is not there, failed and the work directory stayed.
C22_Witness ==
    /\ pc = "Session" /\ dispatches = 2
    /\ command = Cmd("cd", [path |-> "a.tmp"]) /\ result.success = FALSE
    /\ work_directory = <<"n">> /\ <<"n">> \in dirs

\* ------------------------------------------- properties of the exit code
\* the configuration errors the launch may have
NoConfigFile == launch.file # "read" \/ launch.config = NoDict
NoNormalModel == GetDefault(launch.config, "normal_model", NoDict) = NoDict
UnsupportedProvider ==
    GetDefault(GetDefault(launch.config, "normal_model", NoDict), "provider", "unknown")
        \notin {"openai", "openwebui", "ollama"}
MissingStartDirectory ==
    Len(launch.argv) > 0 /\ Join(Root, launch.argv[1]) \notin (dirs \cup files)

\* C23: a program that has ended has exit code 0 if its loop ran and ended
\* by exit or by an interrupt, and exit code 1 if it was started with a
\* configuration error: no config file, no normal model, an unsupported
\* provider (the three of main.py, which reads config.json), or a start
\* directory argument that does not exist.
C23_ExitCodes ==
    pc \in {"Ran", "Refused"} =>
        /\ (pc = "Ran" /\ launch.ending # "error") => exit_code = 0
        /\ (launch.program = "main.py"
              /\ (NoConfigFile \/ NoNormalModel \/ UnsupportedProvider)) => exit_code = 1
        /\ MissingStartDirectory => exit_code = 1

\* C34: whatever cd commands came before, a handler resolves a relative
\* path against the agent's work directory: info and list succeed exactly
\* if the path exists there, mkdir creates the directory there, and diff
\* does not report a file missing that is there.
C34_RelativeToWorkDirectory ==
    [][LET a == Get(command', "action")
           q == command'.params
           at(name) == Join(work_directory, name)
       IN  dispatches' = dispatches + 1 =>
             /\ a = "info" => (result'.success <=> at(q.file_name) \in dirs \cup files)
             /\ (a = "list" /\ "path" \in DOMAIN q) =>
                   (result'.success <=> at(q.path) \in dirs)
             /\ (a = "mkdir" /\ result'.success) => at(q.path) \in dirs'
             /\ (a = "diff" /\ at(q.file1) \in files /\ at(q.file2) \in files) =>
                   ("error" \in DOMAIN result' => result'.error[1] # "file_not_exist")]_vars

\* ------------------------------------------------- properties of the loop
\* the commands dispatched and logged in the current exchange
ExchangeLog ==
    LET n == IF Raised(result) THEN dispatches - 1 ELSE dispatches
    IN  SubSeq(operation_results, Len(operation_results) - n + 1, Len(operation_results))

\* an entry whose command succeeded and carries last_action = true
Final(entry) ==
    /\ "success" \in DOMAIN entry.result /\ entry.result.success = TRUE
    /\ "last_action" \in DOMAIN entry.command /\ entry.command.last_action = TRUE

InExchange ==
    pc \in {"Thinking", "Streaming", "Acting", "AwaitingUserInput"} /\ model_calls > 0

\* C3: in an exchange, if the k-th dispatched command is the first that
\* succeeded with last_action = true, it is the last one: the loop has made
\* exactly k dispatches and k model calls and is back at the turn-start
\* prompt, with no model call after it.
C3_StopsAtFirstFinal ==
    InExchange =>
        \A k \in 1..Len(ExchangeLog) :
            Final(ExchangeLog[k]) =>
                /\ k = Len(ExchangeLog)
                /\ pc = "AwaitingUserInput"
                /\ dispatches = k
                /\ model_calls = k

\* C3 witness: the first command carried no last_action, the second
\* succeeded with last_action = true; two dispatches, two model calls, back
\* at the prompt.
C3_Witness ==
    /\ pc = "AwaitingUserInput" /\ dispatches = 2 /\ model_calls = 2
    /\ Len(ExchangeLog) = 2
    /\ ExchangeLog[1].command = Cmd("list", NoParams)
    /\ ExchangeLog[1].result.success = TRUE
    /\ Final(ExchangeLog[2])

\* the command extracted from the last reply is the marker done
ExtractedDone == command # NoDict /\ "action" \in DOMAIN command /\ command.action = "done"

\* C4: when the extracted command is done, the loop is back at the prompt
\* with nothing dispatched for that reply (one model call more than
\* dispatches, no log entry and no execute event for done).
C4_DoneNotDispatched ==
    /\ ExtractedDone =>
          /\ pc = "AwaitingUserInput"
          /\ model_calls = dispatches + 1
          /\ Len(ExchangeLog) = dispatches
    /\ \A i \in DOMAIN operation_results : operation_results[i].command.action # "done"
    /\ \A i \in Events : trace[i].kind = "execute" => trace[i].arg # <<"done">>

\* C4 witness: done came after one dispatched command.
C4_Witness ==
    /\ ExtractedDone /\ pc = "AwaitingUserInput"
    /\ model_calls = 2 /\ dispatches = 1 /\ Len(operation_results) = 1

\* C5: the loop never makes two model calls without a dispatch in between;
\* a call is followed by the dispatch of the one extracted command or by the
\* return to the prompt, and with no command extracted the loop is back at
\* the prompt with nothing dispatched for that reply.
C5_CallThenDispatchOrStop ==
    InExchange =>
        /\ pc = "Thinking" => model_calls = dispatches
        /\ pc = "Streaming" => model_calls = dispatches + 1
        /\ pc = "Acting" => model_calls = dispatches + 1 /\ command # NoDict
        /\ pc = "AwaitingUserInput" => model_calls \in {dispatches, dispatches + 1}
        /\ (pc # "Streaming" /\ command = NoDict) =>
              pc = "AwaitingUserInput" /\ model_calls = dispatches + 1

\* C5 witness: a reply without a command (a fence that does not parse) after
\* one dispatched command.
C5_Witness ==
    /\ pc = "AwaitingUserInput" /\ command = NoDict /\ ai_response = BadFence
    /\ model_calls = 2 /\ dispatches = 1

\* the last dispatch of the exchange returned and was logged
LastLogged == InExchange /\ dispatches > 0 /\ ~Raised(result)

LastEntry == operation_results[Len(operation_results)]

\* the loop is about to call the model with the logged entry as next_input,
\* or has called it with that input, in the same exchange
FedBack(entry) ==
    \/ /\ pc = "Thinking" /\ model_calls = dispatches
       /\ next_input.body = JsonDumps(entry)
    \/ /\ pc \in {"Streaming", "Acting", "AwaitingUserInput"} /\ model_calls = dispatches + 1
       /\ prompt.user_input.body = JsonDumps(entry)
       /\ prompt.context = JsonDumps(entry.result)

\* C6: after a dispatch whose result is not a success or whose command does
\* not carry last_action = true (absent included), the loop goes on to the
\* model without reading a line, and the input of that call carries the
\* serialized result of the command just executed.
C6_ResultFedBack ==
    (LastLogged /\ ~Final(LastEntry)) =>
        /\ LastEntry.result = result
        /\ FedBack(LastEntry)

\* C6 witness: a list without last_action succeeded and the model was called
\* again with its result.
C6_Witness ==
    /\ LastLogged /\ LastEntry.command = Cmd("list", NoParams)
    /\ LastEntry.result.success = TRUE
    /\ model_calls = 2 /\ dispatches = 1
    /\ prompt.user_input.body = JsonDumps(LastEntry)

\* the user declined the confirmation of the top-level command of the last
\* dispatch
TopLevelDeclined ==
    LastLogged /\ \E i \in Events : DeclinedPrompt(trace[i]) /\ trace[i].depth = 0

\* C7 (as claimed): after a declined top-level command the loop is back at
\* the prompt and no model call follows in that exchange.
C7_DeclineEndsExchange ==
    TopLevelDeclined => pc = "AwaitingUserInput" /\ model_calls = dispatches

\* C7 (amended): after a declined top-level command the Result has
\* success = false and is logged, and the loop goes on in the same exchange:
\* the model is called again with that Result as its input; the command is
\* dispatched again only if a new reply of the model proposes it.
C7_DeclineFedBack ==
    TopLevelDeclined =>
        /\ result.success = FALSE
        /\ LastEntry.result = result
        /\ FedBack(LastEntry)

\* C7 witness: the delete of a.tmp with last_action = true was declined, the
\* file is there, and the model has been called again with the decline.
C7_Witness ==
    /\ TopLevelDeclined
    /\ LastEntry.command = Last(Cmd("delete", [file_name |-> "a.tmp"]), TRUE)
    /\ <<"a.tmp">> \in files
    /\ model_calls = 2 /\ dispatches = 1
    /\ prompt.user_input.body = JsonDumps(LastEntry)

\* C25: the prompt of the first model call of an exchange carries no
\* result of a command: neither as the operation context (last_result is
\* none) nor as any other part of the text sent to the model.
C25_FirstPromptHasNoResult ==
    (prompt # NoDict /\ model_calls = 1)
        => (prompt.context = <<>> /\ prompt.recent = <<>>)

\* the last n complete exchanges of a history of complete exchanges
LastExchanges(h, n) == LastN(h, 2 * n)

\* C26: the prompt built for a model call holds the most recent 5 complete
\* exchanges of the conversation history, in order, and nothing older.
C26_LastFiveExchanges ==
    prompt # NoDict => prompt.messages = LastExchanges(conversation_history, HistoryWindow)

\* C27: the operation log is append-only and grows by exactly one entry,
\* the command with its result, at every dispatch of the loop (here: every
\* dispatch during which the user does not interrupt the program); no
\* other step changes the log.
C27_OneEntryPerDispatch ==
    [][IF dispatches' = dispatches + 1
       THEN interrupt' = "none" =>
              /\ Len(operation_results') = Len(operation_results) + 1
              /\ SubSeq(operation_results', 1, Len(operation_results)) = operation_results
              /\ operation_results'[Len(operation_results')].command = command
              /\ operation_results'[Len(operation_results')].result = result'
       ELSE operation_results' = operation_results]_vars

\* the lines the claim calls built-in local commands, and the empty line
BuiltinLines == {"cls", "clear history", "help", ""}

\* C28: when the line read at the turn-start prompt is exit, clear-screen,
\* help, clear-history or empty, the step calls no model, dispatches no
\* command, leaves the operation log, the conversation history and the file
\* tree as they are; exit ends the loop, the others go back to the prompt.
C28_BuiltinsStayLocal ==
    [][(pc = "AwaitingUserInput" /\ interrupt' = interrupt
          /\ user_input' \in BuiltinLines \cup {"exit"})
         => /\ model_calls' = 0 /\ dispatches' = 0
            /\ prompt' = NoDict /\ stream' = NoStream
            /\ command' = NoDict /\ result' = NoDict
            /\ operation_results' = operation_results
            /\ conversation_history' = conversation_history
            /\ <<work_directory', dirs', files'>> = <<work_directory, dirs, files>>
            /\ pc' = IF user_input' = "exit" THEN "Exited" ELSE "AwaitingUserInput"]_vars

\* clear history was typed after an exchange in which a command was run
C28_Witness ==
    /\ pc = "AwaitingUserInput" /\ user_input = "clear history"
    /\ operation_results # <<>> /\ conversation_history # <<>>
    /\ model_calls = 0

\* ------------------------------------------- properties of the extractor
\* The fenced blocks of a text as markdown pairs the markers: the first
\* opens, the next closes, and so on; each block is the text between.
RECURSIVE BlocksOf(_)
BlocksOf(text) ==
    LET fs == {i \in DOMAIN text : text[i].t = "fence"}
        o == CHOOSE x \in fs : \A y \in fs : x <= y
        cs == {i \in fs : i > o}
        c == CHOOSE x \in cs : \A y \in cs : x <= y
    IN  IF fs = {} \/ cs = {} THEN <<>>
        ELSE <<StripText(SubSeq(text, o + 1, c - 1))>> \o BlocksOf(SubSeq(text, c + 1, Len(text)))

\* a block that is the text of one JSON object with an action key
GoodBlock(block) ==
    \/ Len(block) = 1 /\ block[1].t = "obj" /\ block[1].valid /\ "action" \in DOMAIN block[1].value
    \/ /\ Len(block) = 5 /\ block[1].t = "open" /\ block[3].t = "members" /\ block[5].t = "close"
       /\ "action" \in DOMAIN block[3].value

BlockValue(block) == IF Len(block) = 1 THEN block[1].value ELSE block[3].value

GoodBlocks == SelectSeq(BlocksOf(ai_response), GoodBlock)

\* C12 (as claimed): of a text with fenced blocks, the extractor returns the
\* first block that is valid JSON with an action key, whatever blocks come
\* before it.
C12_FirstGoodBlock ==
    (pc = "Extracted" /\ GoodBlocks # <<>>) => command = BlockValue(GoodBlocks[1])

\* the objects with an action key that the text holds, in a block or on a line
GoodObjects ==
    {i \in DOMAIN ai_response :
        \/ /\ ai_response[i].t = "obj" /\ ai_response[i].valid
           /\ "action" \in DOMAIN ai_response[i].value
        \/ /\ ai_response[i].t = "members" /\ "action" \in DOMAIN ai_response[i].value
           /\ \E o \in 1..(i - 1), c \in (i + 1)..Len(ai_response) :
                 /\ ai_response[o].t = "open" /\ ai_response[c].t = "close"
                 /\ \A j \in (o + 1)..(c - 1) : j = i \/ ai_response[j].t = "nl"}

\* C13: of a text that holds no well-formed JSON object with an action key,
\* in a fenced block or on a line, the extractor returns none.
C13_NoObjectNoCommand ==
    (pc = "Extracted" /\ GoodObjects = {}) => command = NoDict

\* C13 witness: a text with a block that is not JSON and a block without the
\* key, and nothing extracted.
C13_Witness ==
    /\ pc = "Extracted" /\ GoodObjects = {} /\ command = NoDict
    /\ \E i \in DOMAIN ai_response : ai_response[i] = BadObj
    /\ \E i \in DOMAIN ai_response : ai_response[i] = Obj(NoKey)

\* the blocks before the first good one, or all of them, are objects that
\* json.loads rejects
OnlyMalformedBefore ==
    LET bs == BlocksOf(ai_response)
    IN  \A i \in DOMAIN bs :
           (\A j \in 1..i : ~GoodBlock(bs[j])) => bs[i] = <<BadObj>>

HoldsMalformed == \E i \in DOMAIN ai_response : ai_response[i] = BadObj

\* C31: a call of the extractor changes nothing but its return value, which
\* is none or a mapping with the key action (never an exception); of a text
\* whose fenced blocks before the first good one are malformed JSON, the
\* first good block is returned, and with no good block the first line that
\* is an object with an action, malformed lines before it being skipped.
C31_MalformedIsSkipped ==
    [][(pc = "Extractor" /\ pc' = "Extracted")
         => /\ UNCHANGED <<work_directory, dirs, files, operation_results,
                           conversation_history, ai_response, trace>>
            /\ command' = NoDict \/ "action" \in DOMAIN command'
            /\ (HoldsMalformed /\ OnlyMalformedBefore) =>
                  IF GoodBlocks # <<>> THEN command' = BlockValue(GoodBlocks[1])
                  ELSE IF GoodObjects # {}
                  THEN command' = ai_response[CHOOSE i \in GoodObjects :
                                                \A j \in GoodObjects : i <= j].value
                  ELSE command' = NoDict]_vars

\* a malformed block, then a malformed line, then the command on a line
C31_Witness ==
    /\ pc = "Extracted"
    /\ ai_response = BadFence \o BadLine \o Line(CmdB)
    /\ command = CmdB

\* ---------------------------------------------- properties of the stream
\* the step reads the generator's stream through to its end
Exhausts == pc = "Streaming" /\ stream.kind = "gen" /\ stream'.kind = "drained"

\* C14: the conversation history changes only in the step that exhausts the
\* stream of a model call: no fragment remains, and exactly one user message
\* (the input of the call) and one assistant message (the reply as read) are
\* appended, in that order.  Every other step, the consumption of a
\* fragment, a failure of the stream and its abandonment on an interrupt
\* included, leaves the history unchanged, so nothing is appended twice.
C14_AppendOnExhaustion ==
    [][IF Exhausts
       THEN /\ stream.rest = <<>>
            /\ conversation_history' =
                  conversation_history \o <<[role |-> "user", content |-> prompt.user_input],
                                            [role |-> "assistant", content |-> ai_response]>>
       ELSE conversation_history' = conversation_history]_vars

\* C14 witness: a reply of two fragments was read through and the two
\* messages are in the history.
C14_Witness ==
    /\ stream.kind = "drained" /\ ai_response = Prose \o Fence(Cmd("list", NoParams))
    /\ Len(conversation_history) = 2
    /\ conversation_history[1] = [role |-> "user", content |-> UserText("tidy up")]
    /\ conversation_history[2] = [role |-> "assistant", content |-> ai_response]

\* C15 (as claimed): a transport failure of a model call reaches the loop as
\* a text, at the request and while the response is read alike: no stream
\* that call_ai returned raises into the loop that consumes it.
C15_FailureIsText == stream.kind # "raised"

\* C24: when the consumption of the stream fails before the reply is read
\* through, the loop is back at the turn-start prompt with no command
\* extracted, so nothing is dispatched in that turn.
C24_FailedStreamEndsTurn ==
    [][(stream.kind = "gen" /\ stream.rest # <<>> /\ stream'.kind = "raised")
         => (pc' = "AwaitingUserInput" /\ command' = NoDict)]_vars

\* the data: events of a response that precede the first [DONE] event
BeforeDone(lines) ==
    LET done == {i \in DOMAIN lines : lines[i].prefix = "data: " /\ lines[i].kind = "done"}
        first == CHOOSE i \in done : \A j \in done : i <= j
    IN  IF done = {} THEN lines ELSE SubSeq(lines, 1, first - 1)

\* a data: event with a non-empty delta.content
HasContent(line) ==
    /\ line.prefix = "data: " /\ line.kind = "delta"
    /\ line.content \notin {"", None, NoContentKey}

RECURSIVE ContentsOf(_)
ContentsOf(lines) ==
    IF lines = <<>> THEN <<>>
    ELSE (IF HasContent(Head(lines)) THEN <<Head(lines).content>> ELSE <<>>)
           \o ContentsOf(Tail(lines))

\* C32: of a streamed response, the fragments yielded are the non-empty
\* delta.content values of the data: events before the first [DONE] event,
\* in order; when the generator has stopped, all of them were yielded and the
\* assistant message stored in the history is their concatenation.
C32_FragmentsAreDeltas ==
    LET expected == ContentsOf(BeforeDone(stream.lines))
    IN  /\ Len(ai_response) <= Len(expected)
        /\ ai_response = SubSeq(expected, 1, Len(ai_response))
        /\ pc = "Streamed" =>
              /\ ai_response = expected
              /\ conversation_history =
                    <<[role |-> "user", content |-> UserText("tidy up")],
                      [role |-> "assistant", content |-> expected]>>

\* a fragment, a line that is not JSON, the marker, and a fragment after it
C32_Witness ==
    /\ pc = "Streamed" /\ ai_response = <<"a">>
    /\ stream.lines = <<SseLine("data: ", "delta", "a"),
                        SseLine("data: ", "not_json", NoContentKey),
                        SseLine("data: ", "done", NoContentKey),
                        SseLine("data: ", "delta", "b")>>

\* the request of the last model call failed and its error text was read
RequestFailedRead ==
    stream.kind = "drained" /\ stream.buffer = <<>> /\ ai_response = Concat(RequestFailed)

\* C33: a failure other than an interrupt while a turn is processed, in
\* the model call or in the dispatcher or a handler, does not end the
\* process: the loop is back at the turn-start prompt, and the loop has
\* ended only if the user interrupted it.
C33_FailureIsNotFatal ==
    /\ (Raised(result) /\ result # KeyboardInterrupt) => pc = "AwaitingUserInput"
    /\ RequestFailedRead => pc = "AwaitingUserInput"
    /\ pc = "Exited" => interrupt # "none"
    /\ exit_code = None

\* the dispatcher raised after the files were deleted
C33_Witness ==
    /\ pc = "AwaitingUserInput" /\ interrupt = "none"
    /\ result = [exception |-> "KeyError"] /\ <<"a.tmp">> \notin files

\* ------------------------------------------- properties of the interrupt
\* C16: once Ctrl-C was typed, at the turn-start prompt, while the reply is
\* streamed, at a confirmation prompt or while a subprocess is waited for,
\* the loop has ended and stays ended: it is never back at
\* AwaitingUserInput, nor anywhere else in the loop.
C16_InterruptEndsLoop == interrupt # "none" => pc = "Exited"

\* C16 witness: the confirmation prompt of a dispatched delete was
\* interrupted; the file is still there and the loop has ended.
C16_Witness ==
    /\ interrupt = "confirmation_prompt" /\ pc = "Exited"
    /\ command = Last(Cmd("delete", [file_name |-> "a.tmp"]), TRUE)
    /\ result = KeyboardInterrupt
    /\ <<"a.tmp">> \in files

\* ------------------------------------------ properties of the fed-back text
\* the dict acc with the value v at the key k
Put(acc, k, v) == [x \in DOMAIN acc \cup {k} |-> IF x = k THEN v ELSE acc[x]]

RECURSIVE ParseMembers(_, _, _)
\* The members of a JSON object from position i of the text up to the brace
\* that closes it, read into acc: the value and the position after the brace.
ParseMembers(text, i, acc) ==
    IF text[i] = JClose THEN [value |-> acc, next |-> i + 1]
    ELSE LET k == text[i].k
             v == text[i + 1]
         IN  CASE v = JOpen ->
                      LET sub == ParseMembers(text, i + 2, <<>>)
                      IN  ParseMembers(text, sub.next, Put(acc, k, sub.value))
               [] v.j = "true" -> ParseMembers(text, i + 2, Put(acc, k, TRUE))
               [] v.j = "false" -> ParseMembers(text, i + 2, Put(acc, k, FALSE))
               [] v.j = "str" -> ParseMembers(text, i + 2, Put(acc, k, v.s))
               [] OTHER -> ParseMembers(text, i + 2, Put(acc, k, v.v))

\* what a reader of the JSON text of a dict gets back
Deserialize(text) == ParseMembers(text, 2, <<>>).value

\* the key k is in both or in neither, with the same value
SameAt(k, r, q) == (k \in DOMAIN r <=> k \in DOMAIN q) /\ (k \in DOMAIN r => q[k] = r[k])

C20_ListGoesToModel == user_input = "list" => (pc = "Thinking" \/ model_calls > 0)

\* ------------------------------------- properties of the conversation history
\* C35 (as claimed): the dispatch of a command adds no message to the
\* conversation history, whichever action is dispatched, so that one loop
\* iteration (one reply of the model read through, then the dispatch of its
\* command) appends exactly one user/assistant exchange; no step appends
\* more than one exchange.
C35_OneExchangePerIteration ==
    [][/\ dispatches' = dispatches + 1 => conversation_history' = conversation_history
       /\ Len(conversation_history') \in
              {Len(conversation_history), Len(conversation_history) + 2}]_vars

\* --------------------------------------- properties of the input history
\* the entries the calls of tr recorded, oldest first, had the list never
\* been cut: those loaded at construction, then each command add_entry took
\* in; clear_history starts afresh
RECURSIVE Recorded(_)
Recorded(tr) ==
    IF tr = <<>> THEN <<>>
    ELSE LET before == Recorded(SubSeq(tr, 1, Len(tr) - 1))
             e == tr[Len(tr)]
         IN  CASE e.call = "__init__" -> e.arg
               [] e.call = "clear_history" -> <<>>
               [] e.call \in {"add_entry", "_get_user_input_with_history"} ->
                    IF \/ ~Truthy(Strip(e.arg))
                       \/ (before # <<>> /\ before[Len(before)] = Strip(e.arg))
                    THEN before
                    ELSE Append(before, Strip(e.arg))
               [] OTHER -> before

\* C37: after any sequence of calls the input history holds at most
\* max_entries entries, and they are the most recently recorded ones, in the
\* order they were recorded.
C37_KeepsTheNewest ==
    /\ Len(history_manager.history) <= history_manager.max_entries
    /\ history_manager.history = LastN(Recorded(trace), history_manager.max_entries)

\* C37 witness: a full history of two entries took a third, and the oldest
\* was dropped.
C37_Witness ==
    /\ result.call = "add_entry"
    /\ Recorded(trace) = <<"a", "b", "a">>
    /\ history_manager.history = <<"b", "a">>
    /\ history_manager.max_entries = 2

\* adding c and then the same trimmed command again is adding c
Idempotent(hm) ==
    \A c, d \in RawCommands :
        Strip(c) = Strip(d) => add_entry(add_entry(hm, c), d) = add_entry(hm, c)

\* C38: add_entry is idempotent for a repeated (trimmed) command; a line
\* read at the prompt, which run() hands to add_entry twice, is recorded
\* once, as the newest entry; an entry add_entry creates differs from the
\* entry before it; an empty or blank command is not recorded.
C38_RecordedOnce ==
    [][/\ Idempotent(history_manager) /\ Idempotent(history_manager')
       /\ result'.call \in {"add_entry", "_get_user_input_with_history"} =>
              LET before == history_manager.history
                  after == history_manager'.history
                  text == Strip(result'.arg)
              IN  /\ ~Truthy(text) => after = before
                  /\ Truthy(text) =>
                        /\ after[Len(after)] = text
                        /\ Len(after) <= Len(before) + 1
                        /\ after = add_entry(history_manager, text).history
                        /\ (after # before /\ Len(after) >= 2) =>
                               after[Len(after)] # after[Len(after) - 1]]_vars

\* C38 witness: b was added to an empty history, then the line " a" was
\* read at the prompt, and the history holds b and then a single a.
C38_Witness ==
    /\ result.call = "_get_user_input_with_history" /\ result.arg = " a"
    /\ user_input = "a"
    /\ history_manager.history = <<"b", "a">>
    /\ Len(trace) = 3 /\ trace[1].arg = <<>>
    /\ trace[2] = [call |-> "add_entry", arg |-> "b"]

ValidIndex(hm) ==
    hm.current_index = -1 \/ hm.current_index \in 0..(Len(hm.history) - 1)

\* C40: current_index is -1 or an index of the history; get_previous and
\* get_next return None or the entry at the current_index they leave;
\* get_previous at the oldest entry returns None and keeps the index;
\* get_next at the newest entry returns None and sets the index to -1.
C40_IndexStaysValid ==
    [][/\ ValidIndex(history_manager) /\ ValidIndex(history_manager')
       /\ (result'.call \in {"get_previous", "get_next"} /\ Len(trace') = Len(trace) + 1) =>
              /\ \/ result'.value = None
                 \/ /\ history_manager'.current_index # -1
                    /\ result'.value =
                           history_manager'.history[history_manager'.current_index + 1]
              /\ (result'.call = "get_previous" /\ history_manager.current_index = 0) =>
                     /\ result'.value = None
                     /\ history_manager'.current_index = 0
              /\ (/\ result'.call = "get_next"
                  /\ history_manager.history # <<>>
                  /\ history_manager.current_index = Len(history_manager.history) - 1) =>
                     /\ result'.value = None
                     /\ history_manager'.current_index = -1]_vars

\* C40 witness: get_previous went to the newest of two entries, and get_next
\* from there returned None and left the index at -1.
C40_Witness ==
    /\ Len(trace) = 3
    /\ trace[2].call = "get_previous" /\ trace[3].call = "get_next"
    /\ Len(history_manager.history) = 2
    /\ result.value = None
    /\ history_manager.current_index = -1

\* ------------------------------------------- properties of the exchange
\* run() is in its inner loop
InInnerLoop == pc \in {"Thinking", "Streaming", "Acting"}

\* C36: the inner loop leaves a user exchange for the prompt only when no
\* command was extracted from the reply, when the command is done, when the
\* command dispatched succeeded and carries last_action = true, or on an
\* exception; it leaves it for the end of the program only on an interrupt.
\* As the model ends by giving a reply of one of the first three kinds,
\* every exchange is left: the loop is back at the prompt, or the program
\* was interrupted.
C36_ExchangeEnds ==
    /\ [][InInnerLoop =>
            /\ pc' = "AwaitingUserInput" =>
                  \/ pc = "Streaming" /\ command' = NoDict
                  \/ pc = "Streaming" /\ command' # NoDict /\ Get(command', "action") = "done"
                  \/ /\ pc = "Acting" /\ ~Raised(result')
                     /\ GetDefault(result', "success", FALSE) = TRUE
                     /\ GetDefault(command, "last_action", FALSE) = TRUE
                  \/ pc = "Acting" /\ Raised(result')
            /\ pc' = "Exited" => interrupt' # "none"]_vars
    /\ (InInnerLoop ~> (pc = "AwaitingUserInput" \/ (pc = "Exited" /\ interrupt # "none")))

\* C36 witness: the second command of an exchange succeeded with
\* last_action = true and the loop is back at the prompt.
C36_Witness ==
    /\ pc = "AwaitingUserInput"
    /\ dispatches = 2 /\ model_calls = 2
    /\ ~Raised(result) /\ result # NoDict /\ result.success = TRUE
    /\ GetDefault(command, "last_action", FALSE) = TRUE

\* --------------------------------------- properties of a failing read
\* C39 (as claimed): once reading the user's input has failed with an error
\* that is not an interrupt, run() ends: it does not go on reading.
C39_FailedReadEnds == (pc = "Handling") ~> (pc = "Exited")

====
